---------------------------- MODULE Spec2Model ----------------------------
(***************************************************************************)
(* AlphaBot chat backend (alphabot-back/app/services/chat_service.py and   *)
(* app/routers/chat.py): room lifecycle, message ledger, reply pipeline    *)
(* and provider dispatch, as state machines over the persistence layer.    *)
(*                                                                         *)
(* Text is a sequence of one-character strings, so that strip(), upper(),  *)
(* startswith() and concatenation are computed and not assumed.  Python's  *)
(* None is the reserved one-element sequence Null for optional text, and   *)
(* 0 for optional row ids (row ids start at 1).                            *)
(***************************************************************************)
EXTENDS Integers, Sequences, FiniteSets, TLC

VARIABLES
    rooms,        \* table chat: row i has chat_id = i
    messages,     \* table messages: row i has messages_id = i, created in that order
    now,          \* the database clock behind func.now()
    defaultTrash, \* column default of chat.trash_can (set by the schema, fixed)
    ragEnabled,   \* _ENABLE_RAG_NEWS, resolved once at import
    pc,           \* per request slot: where its handler stands
    loc,          \* per request slot: the handler's arguments and locals
    ret,          \* the response sent by the latest step (NoRet when it sent none)
    clean,        \* history: no other request has run during the slot's current call
    lastUpsert,   \* history: id a find-or-create of (user, code) returned with existed false,
                  \*          that call run alone and no room of the pair trashed since
    lastTrashed,  \* history: room of (user, code) that update moved from 'out' to 'in',
                  \*          no room of the pair written since
    gen           \* one provider dispatch: its arguments, the provider's answers, its result

vars == <<rooms, messages, now, defaultTrash, ragEnabled, pc, loc, ret, clean,
          lastUpsert, lastTrashed, gen>>

---------------------------------------------------------------------------
(* Bounds of the model *)

MaxRooms == 2
MaxMsgs == 3
MaxHistory == 4
RecursionLimit == 5

Procs == {1, 2}
Users == {1, 2}

---------------------------------------------------------------------------
(* Text helpers: Python str operations on sequences of characters *)

Null == <<"<None>">>

Whitespace == {" ", "\n"}

Min(a, b) == IF a < b THEN a ELSE b
Max(a, b) == IF a > b THEN a ELSE b

\* bool(x) of an optional str: None and "" are falsy
Truthy(s) == s # Null /\ s # <<>>

RECURSIVE LStrip(_)
LStrip(s) ==
    IF s = <<>> THEN <<>>
    ELSE IF Head(s) \in Whitespace THEN LStrip(Tail(s)) ELSE s

RECURSIVE RStrip(_)
RStrip(s) ==
    IF s = <<>> THEN <<>>
    ELSE IF s[Len(s)] \in Whitespace THEN RStrip(SubSeq(s, 1, Len(s) - 1)) ELSE s

\* str.strip()
Strip(s) == RStrip(LStrip(s))

\* re.sub(r"\s+", "", s)
RECURSIVE RemoveWhitespace(_)
RemoveWhitespace(s) ==
    IF s = <<>> THEN <<>>
    ELSE IF Head(s) \in Whitespace THEN RemoveWhitespace(Tail(s))
         ELSE <<Head(s)>> \o RemoveWhitespace(Tail(s))

UpperOf == [c \in {"a", "b"} |-> IF c = "a" THEN "A" ELSE "B"]
LowerOf == [c \in {"G", "P", "T", "O"} |->
              CASE c = "G" -> "g" [] c = "P" -> "p" [] c = "T" -> "t" [] c = "O" -> "o"]

\* str.upper()
Upper(s) == [i \in 1..Len(s) |-> IF s[i] \in DOMAIN UpperOf THEN UpperOf[s[i]] ELSE s[i]]
\* str.lower()
Lower(s) == [i \in 1..Len(s) |-> IF s[i] \in DOMAIN LowerOf THEN LowerOf[s[i]] ELSE s[i]]

\* str.startswith(prefix)
StartsWith(s, prefix) ==
    Len(prefix) <= Len(s) /\ SubSeq(s, 1, Len(prefix)) = prefix

---------------------------------------------------------------------------
(* Stock codes *)

StockCodeMaxLen == 20

\* the character class of _STOCK_CODE_PATTERN
StockCodeChars == {"A", "B", "C", "Z", "0", "9", ".", "-"}

\* _STOCK_CODE_PATTERN.match(s): ^[A-Z0-9.\-]{1,20}$
PatternIgnoresCharacters(s) == Len(s) >= 1 /\ Len(s) <= StockCodeMaxLen

MatchesStockCodePattern(s) ==
    /\ Len(s) >= 1
    /\ Len(s) <= StockCodeMaxLen
    /\ \A i \in 1..Len(s) : s[i] \in StockCodeChars

\* normalize_stock_code: [ok |-> FALSE] stands for the ValueError
normalize_stock_code(raw_code) ==
    IF raw_code = Null THEN [ok |-> FALSE, code |-> <<>>]
    ELSE LET normalized == Upper(RemoveWhitespace(raw_code)) IN
         IF normalized = <<>> THEN [ok |-> FALSE, code |-> <<>>]
         ELSE IF Len(normalized) > StockCodeMaxLen THEN [ok |-> FALSE, code |-> <<>>]
         ELSE IF ~MatchesStockCodePattern(normalized) THEN [ok |-> FALSE, code |-> <<>>]
         ELSE [ok |-> TRUE, code |-> normalized]

---------------------------------------------------------------------------
(* The chat table *)

TrashIn == "in"
TrashOut == "out"

Chat(user_id, title, stock_code, trash_can) ==
    [user_id |-> user_id, title |-> title, stock_code |-> stock_code,
     trash_can |-> trash_can, lastchat_at |-> 0]

RoomIds(rs) == 1..Len(rs)

SetMax(S) == CHOOSE x \in S : \A y \in S : y <= x

\* rows of (user, code) in a given trash state
RoomsOf(rs, user_id, stock_code, trash) ==
    {i \in RoomIds(rs) : /\ rs[i].user_id = user_id
                         /\ rs[i].stock_code = stock_code
                         /\ rs[i].trash_can = trash}

\* The uniqueness the persistence layer enforces at commit: two active rows
\* of one (user, stock code); rows without a stock code never collide.
UniqueViolationNever(rs) == FALSE

UniqueViolation(rs) ==
    \E i, j \in RoomIds(rs) :
        /\ i < j
        /\ rs[i].stock_code # Null
        /\ rs[i].user_id = rs[j].user_id
        /\ rs[i].stock_code = rs[j].stock_code
        /\ rs[i].trash_can = TrashOut
        /\ rs[j].trash_can = TrashOut

\* get_active_chat_by_stock: the row ids .first() may return (0 when none)
ActiveLookupTrashed(rs, user_id, stock_code) ==
    LET S == RoomsOf(rs, user_id, stock_code, TrashIn)
    IN IF S = {} THEN {0} ELSE S

get_active_chat_by_stock(rs, user_id, stock_code) ==
    LET S == RoomsOf(rs, user_id, stock_code, TrashOut)
    IN IF S = {} THEN {0} ELSE S

\* the trashed lookup of upsert_chat_by_stock: order_by(chat_id.desc()).first()
TrashedOldest(rs, user_id, stock_code) ==
    LET S == RoomsOf(rs, user_id, stock_code, TrashIn)
    IN IF S = {} THEN 0 ELSE CHOOSE x \in S : \A y \in S : x <= y

MostRecentTrashed(rs, user_id, stock_code) ==
    LET S == RoomsOf(rs, user_id, stock_code, TrashIn)
    IN IF S = {} THEN 0 ELSE SetMax(S)

\* f"{stock_code} 채팅"
DefaultTitle(stock_code) == stock_code \o <<" ", "chat">>

---------------------------------------------------------------------------
(* Requests.  A slot of Procs serves one request at a time; a handler that *)
(* reads, then commits, then re-queries is one step per database round     *)
(* trip, so that other requests can run between its transactions.          *)

UpsertInputs ==
    {[stock_code |-> <<"a", " ">>, title |-> Null],
     [stock_code |-> <<"a", " ">>, title |-> <<" ", "T">>],
     [stock_code |-> <<"$">>, title |-> Null]}
CreateStocks == {Null, <<"A">>}
CreateTitles == {<<"T">>}
ChatUpdates ==
    {[title |-> Null, trash_can |-> "None"],
     [title |-> <<" ">>, trash_can |-> "None"],
     [title |-> <<" ", "T">>, trash_can |-> "None"],
     [title |-> Null, trash_can |-> TrashIn],
     [title |-> Null, trash_can |-> TrashOut],
     [title |-> <<" ", "T">>, trash_can |-> "bad"],
     [title |-> Null, trash_can |-> "bad"]}
StoredCodes == {<<"A">>}
Pairs == Users \X StoredCodes

NoLoc == [user |-> 0, stock |-> Null, title |-> Null, mode |-> "none", target |-> 0,
          room |-> 0, umsg |-> 0]

\* a response: the HTTP status and body, and the history the claims speak of
\* (prev, act0, tr0, hi0: what the call found when it started; commit: the
\* call committed a write)
NoRet == [op |-> "none", status |-> 0, id |-> 0, existed |-> FALSE, conflict |-> FALSE,
          clean |-> FALSE, prev |-> 0, act0 |-> 0, tr0 |-> 0, hi0 |-> 0, commit |-> FALSE]

\* the response of a call whose db.commit() succeeded
Committed(response) == [response EXCEPT !.commit = TRUE]

\* history bookkeeping: the acting slot p overlaps every other slot that is mid-call
Overlap(p, mine) == [q \in Procs |-> IF q = p THEN mine ELSE pc[q] = "idle"]

\* a committed write to a room of (user, stock) other than moving it to the trash
ForgetTrashed(user_id, stock_code) ==
    [k \in Pairs |-> IF k = <<user_id, stock_code>> THEN 0 ELSE lastTrashed[k]]

ForgetUpsert(user_id, stock_code) ==
    [k \in Pairs |-> IF k = <<user_id, stock_code>> THEN 0 ELSE lastUpsert[k]]

RecordUpsert(user_id, stock_code, id) ==
    [k \in Pairs |-> IF k = <<user_id, stock_code>> THEN id ELSE lastUpsert[k]]

\* history: the highest id among the trashed rooms of (user, stock), 0 when none
HighestTrashed(user_id, stock_code) ==
    LET S == {i \in 1..Len(rooms) : /\ rooms[i].user_id = user_id
                                    /\ rooms[i].stock_code = stock_code
                                    /\ rooms[i].trash_can = "in"}
    IN IF S = {} THEN 0 ELSE CHOOSE x \in S : \A y \in S : y <= x

\* ChatByStockResponse of enter_chat_by_stock (status 200), or the error raised
UpsertRet(l, status, id, existed, conflict, isClean, act0) ==
    [NoRet EXCEPT !.op = "upsert", !.status = status, !.id = id, !.existed = existed,
                  !.conflict = conflict, !.clean = isClean,
                  !.prev = IF isClean THEN lastUpsert[<<l.user, l.stock>>] ELSE 0,
                  !.act0 = act0,
                  !.tr0 = IF isClean THEN lastTrashed[<<l.user, l.stock>>] ELSE 0,
                  !.hi0 = IF isClean THEN HighestTrashed(l.user, l.stock) ELSE 0]

UNCHANGED_config == UNCHANGED <<defaultTrash, ragEnabled, gen>>

\* enter_chat_by_stock up to the first reads of upsert_chat_by_stock:
\* normalisation (400 on ValueError), the active lookup, the trashed lookup
UpsertWith(p, user_id, in) ==
    /\ pc[p] = "idle"
    /\  LET n == normalize_stock_code(in.stock_code)
            normalized_title == IF Truthy(in.title) THEN Strip(in.title) ELSE Null
        IN IF ~n.ok
           THEN /\ ret' = [NoRet EXCEPT !.op = "upsert", !.status = 400]
                /\ clean' = Overlap(p, TRUE)
                /\ UNCHANGED <<pc, loc, lastUpsert>>
           ELSE \E existing \in get_active_chat_by_stock(rooms, user_id, n.code) :
                LET trashed == MostRecentTrashed(rooms, user_id, n.code)
                    l == [NoLoc EXCEPT !.user = user_id, !.stock = n.code,
                                       !.title = normalized_title,
                                       !.mode = IF trashed # 0 THEN "restore" ELSE "insert",
                                       !.target = trashed]
                IN IF existing # 0
                   THEN /\ ret' = UpsertRet(l, 200, existing, TRUE, FALSE, TRUE, existing)
                        /\ clean' = Overlap(p, TRUE)
                        /\ UNCHANGED <<pc, loc, lastUpsert>>
                   ELSE /\ pc' = [pc EXCEPT ![p] = "upsert_commit"]
                        /\ loc' = [loc EXCEPT ![p] = l]
                        /\ ret' = NoRet
                        /\ clean' = Overlap(p, TRUE)
                        /\ UNCHANGED lastUpsert
    /\ UNCHANGED <<rooms, messages, now, lastTrashed>>
    /\ UNCHANGED_config

UpsertLookup(p) ==
    \E user_id \in Users, in \in UpsertInputs : UpsertWith(p, user_id, in)

\* the restore branch of upsert_chat_by_stock: its commit is not guarded
UpsertRestore(p) ==
    /\ pc[p] = "upsert_commit"
    /\ loc[p].mode = "restore"
    /\ LET l == loc[p]
           trashed == rooms[l.target]
           new_title == IF Truthy(l.title)
                        THEN (IF Strip(l.title) # <<>> THEN Strip(l.title) ELSE trashed.title)
                        ELSE trashed.title
           rs == [rooms EXCEPT ![l.target] =
                     [trashed EXCEPT !.trash_can = TrashOut, !.title = new_title]]
       IN IF UniqueViolation(rs)
          THEN /\ ret' = UpsertRet(l, 500, 0, FALSE, TRUE, clean[p], 0)
               /\ UNCHANGED <<rooms, lastUpsert, lastTrashed>>
          ELSE /\ rooms' = rs
               /\ ret' = Committed(UpsertRet(l, 200, l.target, FALSE, FALSE, clean[p], 0))
               /\ lastUpsert' = IF clean[p] THEN RecordUpsert(l.user, l.stock, l.target)
                                ELSE ForgetUpsert(l.user, l.stock)
               /\ lastTrashed' = ForgetTrashed(l.user, l.stock)
    /\ pc' = [pc EXCEPT ![p] = "idle"]
    /\ loc' = [loc EXCEPT ![p] = NoLoc]
    /\ clean' = Overlap(p, TRUE)
    /\ UNCHANGED <<messages, now>>
    /\ UNCHANGED_config

\* the insert branch: db.add(new_chat); db.commit(), IntegrityError caught
UpsertInsert(p) ==
    /\ pc[p] = "upsert_commit"
    /\ loc[p].mode = "insert"
    /\ LET l == loc[p]
           room_title == IF Truthy(l.title) /\ Strip(l.title) # <<>>
                         THEN Strip(l.title) ELSE DefaultTitle(l.stock)
           new_chat == Chat(l.user, room_title, l.stock, TrashOut)
           rs == Append(rooms, new_chat)
       IN IF UniqueViolation(rs)
          THEN /\ pc' = [pc EXCEPT ![p] = "upsert_requery"]
               /\ clean' = Overlap(p, clean[p])
               /\ ret' = NoRet
               /\ UNCHANGED <<rooms, loc, lastUpsert, lastTrashed>>
          ELSE /\ Len(rooms) < MaxRooms
               /\ rooms' = rs
               /\ ret' = Committed(UpsertRet(l, 200, Len(rs), FALSE, FALSE, clean[p], 0))
               /\ lastUpsert' = IF clean[p] THEN RecordUpsert(l.user, l.stock, Len(rs))
                                ELSE ForgetUpsert(l.user, l.stock)
               /\ lastTrashed' = ForgetTrashed(l.user, l.stock)
               /\ pc' = [pc EXCEPT ![p] = "idle"]
               /\ loc' = [loc EXCEPT ![p] = NoLoc]
               /\ clean' = Overlap(p, TRUE)
    /\ UNCHANGED <<messages, now>>
    /\ UNCHANGED_config

\* except IntegrityError: rollback, re-query the active room, re-raise when none
RequeryExistedFalse(l, existing, isClean) ==
    IF existing = 0 THEN UpsertRet(l, 500, 0, FALSE, TRUE, isClean, 0)
    ELSE UpsertRet(l, 200, existing, FALSE, TRUE, isClean, 0)

RequeryResult(l, existing, isClean) ==
    IF existing = 0 THEN UpsertRet(l, 500, 0, FALSE, TRUE, isClean, 0)
    ELSE UpsertRet(l, 200, existing, TRUE, TRUE, isClean, 0)

UpsertRequery(p) ==
    /\ pc[p] = "upsert_requery"
    /\ \E existing \in get_active_chat_by_stock(rooms, loc[p].user, loc[p].stock) :
        /\ ret' = RequeryResult(loc[p], existing, clean[p])
        /\ lastUpsert' = ForgetUpsert(loc[p].user, loc[p].stock)
    /\ pc' = [pc EXCEPT ![p] = "idle"]
    /\ loc' = [loc EXCEPT ![p] = NoLoc]
    /\ clean' = Overlap(p, TRUE)
    /\ UNCHANGED <<rooms, messages, now, lastTrashed>>
    /\ UNCHANGED_config

\* create_chat_room (POST /rooms) and create_chat_room_for_user, one transaction
CreateRet(status, id, existed) ==
    [NoRet EXCEPT !.op = "create", !.status = status, !.id = id, !.existed = existed]

\* the lookup of create_chat_room_for_user: rows .first() may return (0 when none)
CreateLookup(rs, user_id, stock_code) ==
    IF ~Truthy(stock_code) THEN {0}
    ELSE LET S == RoomsOf(rs, user_id, stock_code, TrashIn)
         IN IF S = {} THEN {0} ELSE S

\* one create request of slot p (every answer of the route that is not an
\* error carries the route's status 201)
CreateWith(p, user_id, stock_code, title) ==
    /\ pc[p] = "idle"
    /\ \E existing_chat \in CreateLookup(rooms, user_id, stock_code) :
        IF existing_chat # 0
        THEN /\ ret' = CreateRet(201, existing_chat, TRUE)
             /\ UNCHANGED <<rooms, lastTrashed>>
        ELSE LET rs == Append(rooms, Chat(user_id, title, stock_code, defaultTrash)) IN
             IF UniqueViolation(rs)
             THEN /\ ret' = CreateRet(500, 0, FALSE)
                  /\ UNCHANGED <<rooms, lastTrashed>>
             ELSE /\ Len(rooms) < MaxRooms
                  /\ rooms' = rs
                  /\ ret' = Committed(CreateRet(201, Len(rs), FALSE))
                  /\ lastTrashed' = IF stock_code \in StoredCodes
                                    THEN ForgetTrashed(user_id, stock_code)
                                    ELSE lastTrashed
    /\ clean' = Overlap(p, TRUE)
    /\ UNCHANGED <<messages, now, pc, loc, lastUpsert>>
    /\ UNCHANGED_config

CreateChatRoom(p) ==
    \E user_id \in Users, stock_code \in CreateStocks, title \in CreateTitles :
        CreateWith(p, user_id, stock_code, title)

\* get_chat_room_by_stock (GET /rooms/by-stock/{stock_code}) and
\* get_chat_room_by_stock_for_user: the row .first() may return, or 404
ByStockRet(status, id) == [NoRet EXCEPT !.op = "by_stock", !.status = status, !.id = id]

GetChatRoomByStock(p) ==
    /\ pc[p] = "idle"
    /\ \E user_id \in Users, stock_code \in StoredCodes :
        LET S == RoomsOf(rooms, user_id, stock_code, TrashIn) IN
        IF S = {} THEN ret' = ByStockRet(404, 0)
        ELSE \E chat \in S : ret' = ByStockRet(200, chat)
    /\ clean' = Overlap(p, TRUE)
    /\ UNCHANGED <<rooms, messages, now, pc, loc, lastUpsert, lastTrashed>>
    /\ UNCHANGED_config

\* update_chat_room (PATCH /rooms/{room_id}) and update_chat_room_for_user
UpdateRet(room_id, status) ==
    [NoRet EXCEPT !.op = "update", !.status = status,
                  !.id = IF status = 200 THEN room_id ELSE 0]

\* the body of update_chat_room_for_user on the row it found (lines 634-654):
\* the status, whether db.commit() is reached, and the row that is committed
\* (a raise leaves the session's changes uncommitted)
UpdateInvalid(chat_in) ==
    \/ chat_in.title # Null /\ Strip(chat_in.title) = <<>>
    \/ chat_in.trash_can # "None" /\ chat_in.trash_can \notin {TrashIn, TrashOut}

UpdateApplied(chat, chat_in) ==
    [chat EXCEPT !.title = IF chat_in.title # Null THEN Strip(chat_in.title) ELSE @,
                 !.trash_can = IF chat_in.trash_can \in {TrashIn, TrashOut}
                               THEN chat_in.trash_can ELSE @]

UpdateCommitsBeforeRaise(chat, chat_in) ==
    IF chat_in.title # Null /\ Strip(chat_in.title) = <<>>
    THEN [status |-> 400, commit |-> FALSE, chat |-> chat]
    ELSE IF UpdateInvalid(chat_in)
    THEN [status |-> 400, commit |-> chat_in.title # Null,
          chat |-> UpdateApplied(chat, chat_in)]
    ELSE IF chat_in.title = Null /\ chat_in.trash_can = "None"
    THEN [status |-> 200, commit |-> FALSE, chat |-> chat]
    ELSE [status |-> 200, commit |-> TRUE, chat |-> UpdateApplied(chat, chat_in)]

UpdateCommitsUnchanged(chat, chat_in) ==
    IF UpdateInvalid(chat_in) THEN [status |-> 400, commit |-> FALSE, chat |-> chat]
    ELSE [status |-> 200, commit |-> TRUE, chat |-> UpdateApplied(chat, chat_in)]

UpdateOutcome(chat, chat_in) ==
    IF UpdateInvalid(chat_in) THEN [status |-> 400, commit |-> FALSE, chat |-> chat]
    ELSE IF chat_in.title = Null /\ chat_in.trash_can = "None"
    THEN [status |-> 200, commit |-> FALSE, chat |-> chat]
    ELSE [status |-> 200, commit |-> TRUE, chat |-> UpdateApplied(chat, chat_in)]

\* one update request of slot p
UpdateWith(p, user_id, room_id, chat_in) ==
    /\ pc[p] = "idle"
    /\ IF room_id \notin RoomIds(rooms) \/ rooms[room_id].user_id # user_id
       THEN /\ ret' = UpdateRet(room_id, 404)
            /\ UNCHANGED <<rooms, lastUpsert, lastTrashed>>
       ELSE LET chat == rooms[room_id]
                key == <<user_id, chat.stock_code>>
                outcome == UpdateOutcome(chat, chat_in)
                changed == outcome.chat
                rs == [rooms EXCEPT ![room_id] = changed]
            IN IF ~outcome.commit
               THEN /\ ret' = UpdateRet(room_id, outcome.status)
                    /\ UNCHANGED <<rooms, lastUpsert, lastTrashed>>
               ELSE IF UniqueViolation(rs)
               THEN /\ ret' = UpdateRet(room_id, 500)
                    /\ UNCHANGED <<rooms, lastUpsert, lastTrashed>>
               ELSE /\ rooms' = rs
                    /\ ret' = Committed(UpdateRet(room_id, outcome.status))
                    /\ lastUpsert' = IF key \in Pairs /\ changed.trash_can = TrashIn
                                     THEN ForgetUpsert(user_id, chat.stock_code)
                                     ELSE lastUpsert
                    /\ lastTrashed' =
                         IF key \notin Pairs THEN lastTrashed
                         ELSE IF chat.trash_can = TrashOut /\ changed.trash_can = TrashIn
                         THEN [lastTrashed EXCEPT ![key] = room_id]
                         ELSE ForgetTrashed(user_id, chat.stock_code)
    /\ clean' = Overlap(p, TRUE)
    /\ UNCHANGED <<messages, now, pc, loc>>
    /\ UNCHANGED_config

UpdateChatRoom(p) ==
    \E user_id \in Users, room_id \in 1..MaxRooms, chat_in \in ChatUpdates :
        UpdateWith(p, user_id, room_id, chat_in)

---------------------------------------------------------------------------
(* The room lifecycle: concurrent room requests over an empty database *)

NoGen == [stage |-> "off"]

Init ==
    /\ rooms = <<>>
    /\ messages = <<>>
    /\ now = 0
    /\ defaultTrash \in {TrashIn, TrashOut}
    /\ ragEnabled = FALSE
    /\ pc = [p \in Procs |-> "idle"]
    /\ loc = [p \in Procs |-> NoLoc]
    /\ ret = NoRet
    /\ clean = [p \in Procs |-> TRUE]
    /\ lastUpsert = [k \in Pairs |-> 0]
    /\ lastTrashed = [k \in Pairs |-> 0]
    /\ gen = NoGen

Next ==
    \E p \in Procs :
        \/ UpsertLookup(p)
        \/ UpsertRestore(p)
        \/ UpsertInsert(p)
        \/ UpsertRequery(p)
        \/ CreateChatRoom(p)
        \/ UpdateChatRoom(p)
        \/ GetChatRoomByStock(p)

Spec == Init /\ [][Next]_vars

---------------------------------------------------------------------------
(* Two slots entering the chat of one (user, code) and nothing else running *)
(* (specification SpecRace): the pair has no room, or one trashed room.  A  *)
(* handler that has started runs to its end.                                *)

RaceUser == 1
RaceInputs == {in \in UpsertInputs : normalize_stock_code(in.stock_code).ok}

RaceInit ==
    /\ rooms \in {<<>>, <<Chat(RaceUser, DefaultTitle(<<"A">>), <<"A">>, TrashIn)>>}
    /\ messages = <<>>
    /\ now = 0
    /\ defaultTrash = TrashOut
    /\ ragEnabled = FALSE
    /\ pc = [p \in Procs |-> "idle"]
    /\ loc = [p \in Procs |-> NoLoc]
    /\ ret = NoRet
    /\ clean = [p \in Procs |-> TRUE]
    /\ lastUpsert = [k \in Pairs |-> 0]
    /\ lastTrashed = [k \in Pairs |-> 0]
    /\ gen = NoGen

RaceEnter(p) == \E in \in RaceInputs : UpsertWith(p, RaceUser, in)

RaceNext ==
    \E p \in Procs :
        \/ RaceEnter(p)
        \/ UpsertRestore(p)
        \/ UpsertInsert(p)
        \/ UpsertRequery(p)

SpecRace ==
    /\ RaceInit
    /\ [][RaceNext]_vars
    /\ \A p \in Procs : WF_vars(UpsertRestore(p) \/ UpsertInsert(p) \/ UpsertRequery(p))

---------------------------------------------------------------------------
(* Provider payloads and the text normaliser.  A payload value is None, a  *)
(* str, a number, a list, or an object/dict with the fields the code reads *)
(* (value, text, content; None when absent) and its str() rendering.       *)

VNone == [t |-> "none"]
VStr(s) == [t |-> "str", s |-> s]
VNum(n) == [t |-> "num", n |-> n]
VList(items) == [t |-> "list", items |-> items]
VObj(value, text, content, repr) ==
    [t |-> "obj", value |-> value, text |-> text, content |-> content, repr |-> repr]

\* str(n) for the one-digit numbers of the sample payloads
DigitStr == [n \in 0..9 |-> CASE n = 0 -> "0" [] n = 1 -> "1" [] n = 2 -> "2" [] n = 3 -> "3"
                              [] n = 4 -> "4" [] n = 5 -> "5" [] n = 6 -> "6" [] n = 7 -> "7"
                              [] n = 8 -> "8" [] n = 9 -> "9"]

\* "\n".join(parts)
RECURSIVE JoinLines(_)
JoinLines(parts) ==
    IF parts = <<>> THEN <<>>
    ELSE IF Len(parts) = 1 THEN parts[1]
    ELSE parts[1] \o <<"\n">> \o JoinLines(Tail(parts))

\* _get_from_obj(obj, key) for key in value/text/content
GetField(obj, key) ==
    IF obj.t # "obj" THEN VNone
    ELSE CASE key = "value" -> obj.value
           [] key = "text" -> obj.text
           [] key = "content" -> obj.content

\* _coerce_text_value: Null for None, else the text
RECURSIVE _coerce_text_value(_)
RECURSIVE CoerceParts(_)
RECURSIVE CoerceNested(_, _)

\* [part for part in (_coerce_text_value(item) for item in value) if part]
CoerceParts(items) ==
    IF items = <<>> THEN <<>>
    ELSE LET part == _coerce_text_value(Head(items)) IN
         IF Truthy(part) THEN <<part>> \o CoerceParts(Tail(items))
         ELSE CoerceParts(Tail(items))

\* the loop over nested_keys, then the str(value).strip() fallback
CoerceNested(value, keys) ==
    IF keys = <<>>
    THEN LET text_repr == Strip(value.repr) IN IF text_repr = <<>> THEN Null ELSE text_repr
    ELSE LET nested == GetField(value, Head(keys)) IN
         IF nested = VNone THEN CoerceNested(value, Tail(keys))
         ELSE LET resolved == _coerce_text_value(nested) IN
              IF Truthy(resolved) THEN resolved ELSE CoerceNested(value, Tail(keys))

_coerce_text_value(value) ==
    CASE value.t = "none" -> Null
      [] value.t = "str" -> value.s
      [] value.t = "num" -> <<DigitStr[value.n]>>
      [] value.t = "list" ->
            LET parts == CoerceParts(value.items) IN
            IF parts # <<>> THEN JoinLines(parts) ELSE Null
      [] value.t = "obj" -> CoerceNested(value, <<"value", "text", "content">>)

---------------------------------------------------------------------------
(* Provider dispatch: _call_openai_chat and its helpers *)

\* model identifiers
Model_gpt5mini == <<"g", "p", "t", "-", "5", "-", "m", "i", "n", "i">>
Model_GPT41 == <<"G", "P", "T", "-", "4", ".", "1">>
Model_o1 == <<"o", "1", "-", "p", "r", "o">>
Model_gpt4o == <<"g", "p", "t", "-", "4", "o">>
Model_gpt35 == <<"g", "p", "t", "-", "3", ".", "5">>

_OPENAI_MODEL_DEFAULT == Model_gpt5mini
_OPENAI_MAX_TOKENS_DEFAULT == 512
_OPENAI_RESPONSES_MIN_OUTPUT_TOKENS == 1024
_OPENAI_RESPONSES_MAX_OUTPUT_TOKENS == 4096
RetryStep == 256

_RESPONSES_ONLY_PREFIXES ==
    {<<"g", "p", "t", "-", "4", ".", "1">>,
     <<"g", "p", "t", "-", "5", "-", "m", "i", "n", "i">>,
     <<"o", "4">>, <<"o", "5">>, <<"o", "1">>}

_ASSISTANT_FALLBACK_MESSAGE == <<"sorry, no answer can be generated now">>

\* _should_use_responses_api
_should_use_responses_api(model) ==
    LET normalized == Lower(IF model = Null THEN <<>> ELSE model)
    IN \E prefix \in _RESPONSES_ONLY_PREFIXES : StartsWith(normalized, prefix)

\* a Responses API payload, a Chat Completions payload, or a transport failure
Block(type, text, content) == [type |-> type, text |-> text, content |-> content]
Item(type, content) == [type |-> type, content |-> content]
ResponsesPayload(output, output_text, incomplete) ==
    [kind |-> "responses", output |-> output, output_text |-> output_text,
     incomplete |-> incomplete, choices |-> <<>>]
ChatPayload(choices) ==
    [kind |-> "chat", output |-> <<>>, output_text |-> VNone, incomplete |-> "None",
     choices |-> choices]
Choice(content, delta) == [content |-> content, delta |-> delta]
TransportFailure ==
    [kind |-> "raise", output |-> <<>>, output_text |-> VNone, incomplete |-> "None",
     choices |-> <<>>]

\* the text/content scan of one output item's content blocks
RECURSIVE ScanBlocks(_)
ScanBlocks(contents) ==
    IF contents = <<>> THEN Null
    ELSE LET content == Head(contents) IN
         IF content.type \in {"text", "output_text"}
         THEN LET text_value == _coerce_text_value(content.text) IN
              IF Truthy(text_value) THEN text_value
              ELSE LET content_value == _coerce_text_value(content.content) IN
                   IF Truthy(content_value) THEN content_value
                   ELSE ScanBlocks(Tail(contents))
         ELSE ScanBlocks(Tail(contents))

\* the scan of the output list
RECURSIVE ScanOutputs(_)
ScanOutputs(outputs) ==
    IF outputs = <<>> THEN Null
    ELSE LET output == Head(outputs) IN
         IF output.type \notin {"message", "output_text"} THEN ScanOutputs(Tail(outputs))
         ELSE LET found == ScanBlocks(output.content) IN
              IF found # Null THEN found ELSE ScanOutputs(Tail(outputs))

\* results of the helpers and of _call_openai_chat: a returned text or a raised
\* HTTPException (empty: its detail is "OpenAI returned empty response")
Returned(text) == [kind |-> "return", text |-> text, status |-> 200, empty |-> FALSE]
Raised(status, empty) == [kind |-> "raise", text |-> <<>>, status |-> status, empty |-> empty]

\* _extract_text_from_responses
_extract_text_from_responses(resp) ==
    LET found == ScanOutputs(resp.output) IN
    IF found # Null THEN Returned(found)
    ELSE LET fallback == _coerce_text_value(resp.output_text) IN
         IF Truthy(fallback) THEN Returned(fallback) ELSE Raised(502, TRUE)

\* _extract_text_from_chat_choice of resp.choices[0] (None when there is none)
_extract_text_from_chat_choice(choices) ==
    IF choices = <<>> THEN Null
    ELSE LET choice == choices[1]
             text_value == _coerce_text_value(choice.content)
         IN IF Truthy(text_value) THEN text_value
            ELSE LET delta_value == _coerce_text_value(choice.delta) IN
                 IF Truthy(delta_value) THEN delta_value ELSE Null

\* _is_empty_openai_http_error
IsEmptyNever(exc) == FALSE

_is_empty_openai_http_error(exc) == exc.status = 502 /\ exc.empty

\* _get_incomplete_reason
_get_incomplete_reason(resp) == resp.incomplete

\* the floor without the ceiling
ResponsesMaxTokensFloorOnly(max_tokens) ==
    Max(max_tokens, _OPENAI_RESPONSES_MIN_OUTPUT_TOKENS)

\* lines 390-391: the cap of the first Responses API call
ResponsesMaxTokens(max_tokens) ==
    Min(Max(max_tokens, _OPENAI_RESPONSES_MIN_OUTPUT_TOKENS),
        _OPENAI_RESPONSES_MAX_OUTPUT_TOKENS)

\* lines 404-407: whether the call is made again
RetryOnAnyIncomplete(resp, responses_max_tokens) ==
    /\ _get_incomplete_reason(resp) # "None"
    /\ responses_max_tokens < _OPENAI_RESPONSES_MAX_OUTPUT_TOKENS

ShouldRetry(resp, responses_max_tokens) ==
    /\ _get_incomplete_reason(resp) = "max_output_tokens"
    /\ responses_max_tokens < _OPENAI_RESPONSES_MAX_OUTPUT_TOKENS

\* the product rounded up instead of truncated
RetryTokensRoundedUp(responses_max_tokens) ==
    Min(_OPENAI_RESPONSES_MAX_OUTPUT_TOKENS,
        Max((responses_max_tokens * 3 + 1) \div 2, responses_max_tokens + RetryStep))

\* lines 408-411: int(responses_max_tokens * 1.5) truncates a non-negative product
RetryTokens(responses_max_tokens) ==
    Min(_OPENAI_RESPONSES_MAX_OUTPUT_TOKENS,
        Max((responses_max_tokens * 3) \div 2, responses_max_tokens + RetryStep))

\* lines 426-435: text extraction of the Responses branch and its inner handler
ResponsesResult(resp) ==
    LET extracted == _extract_text_from_responses(resp) IN
    IF extracted.kind = "raise"
    THEN (IF _is_empty_openai_http_error(extracted)
          THEN Returned(_ASSISTANT_FALLBACK_MESSAGE) ELSE extracted)
    ELSE IF Truthy(extracted.text) THEN extracted
    ELSE Returned(_ASSISTANT_FALLBACK_MESSAGE)

\* lines 447-452: the Chat Completions branch after the call
ChatResult(resp) ==
    LET content == _extract_text_from_chat_choice(resp.choices) IN
    IF ~Truthy(content) THEN Returned(_ASSISTANT_FALLBACK_MESSAGE) ELSE Returned(content)

\* lines 453-456: except HTTPException around the whole try block
HandleHTTPException(result) ==
    IF result.kind = "raise" /\ _is_empty_openai_http_error(result)
    THEN Returned(_ASSISTANT_FALLBACK_MESSAGE) ELSE result

\* lines 457-462: except Exception (a failure of the provider call itself)
TransportFailureSwallowed == Returned(_ASSISTANT_FALLBACK_MESSAGE)

HandleTransportFailure == Raised(502, FALSE)

\* _get_openai_client failing (lines 252-266), raised before the try block
ClientUnavailable == Raised(500, FALSE)

\* _call_openai_chat as a function of what the provider answers: r1 to the
\* first call, r2 to the second if one is made.  caps lists the token caps sent.
_call_openai_chat(clientOK, model, max_tokens, r1, r2) ==
    IF ~clientOK THEN [out |-> ClientUnavailable, caps |-> <<>>]
    ELSE IF _should_use_responses_api(model)
    THEN LET responses_max_tokens == ResponsesMaxTokens(max_tokens) IN
         IF r1.kind = "raise"
         THEN [out |-> HandleTransportFailure, caps |-> <<responses_max_tokens>>]
         ELSE IF ShouldRetry(r1, responses_max_tokens)
         THEN LET retry_tokens == RetryTokens(responses_max_tokens) IN
              IF r2.kind = "raise"
              THEN [out |-> HandleTransportFailure,
                    caps |-> <<responses_max_tokens, retry_tokens>>]
              ELSE [out |-> HandleHTTPException(ResponsesResult(r2)),
                    caps |-> <<responses_max_tokens, retry_tokens>>]
         ELSE [out |-> HandleHTTPException(ResponsesResult(r1)),
               caps |-> <<responses_max_tokens>>]
    ELSE IF r1.kind = "raise"
         THEN [out |-> HandleTransportFailure, caps |-> <<max_tokens>>]
         ELSE [out |-> HandleHTTPException(ChatResult(r1)), caps |-> <<max_tokens>>]

\* sample payloads
TextHi == <<"h", "i">>
BlockHi == Block("output_text", VStr(TextHi), VNone)
R_ok == ResponsesPayload(<<Item("message", <<BlockHi>>)>>, VStr(TextHi), "None")
R_truncated == ResponsesPayload(<<Item("message", <<BlockHi>>)>>, VNone, "max_output_tokens")
R_truncated_empty ==
    ResponsesPayload(<<Item("reasoning", <<>>)>>, VNone, "max_output_tokens")
R_filtered == ResponsesPayload(<<>>, VNone, "content_filter")
R_empty_output == ResponsesPayload(<<>>, VNone, "None")
R_empty_text ==
    ResponsesPayload(<<Item("message", <<Block("output_text", VStr(<<>>), VNone)>>)>>,
                     VStr(<<>>), "None")
R_helper_only == ResponsesPayload(<<Item("reasoning", <<>>)>>, VStr(TextHi), "None")
R_nested ==
    ResponsesPayload(
        <<Item("message",
               <<Block("refusal", VStr(<<"n", "o">>), VNone),
                 Block("text", VNone, VList(<<VStr(<<"a">>), VStr(<<>>), VStr(<<"b">>)>>))>>)>>,
        VNone, "None")

ResponsesSamples ==
    {R_ok, R_truncated, R_truncated_empty, R_filtered, R_empty_output, R_empty_text,
     R_helper_only, R_nested, TransportFailure}

C_ok == ChatPayload(<<Choice(VStr(TextHi), VNone)>>)
C_no_choices == ChatPayload(<<>>)
C_empty_content == ChatPayload(<<Choice(VStr(<<>>), VNone)>>)
C_none_content == ChatPayload(<<Choice(VNone, VNone)>>)
C_delta == ChatPayload(<<Choice(VNone, VObj(VNone, VNone, VStr(TextHi), <<"d">>))>>)
C_parts == ChatPayload(<<Choice(VList(<<VObj(VNone, VStr(<<"a">>), VNone, <<"p">>), VNum(7)>>),
                               VNone)>>)

ChatSamples ==
    {C_ok, C_no_choices, C_empty_content, C_none_content, C_delta, C_parts, TransportFailure}

GenModels == {Model_gpt5mini, Model_GPT41, Model_o1, Model_gpt4o, Model_gpt35}
GenMaxTokens == {0, 512, 1024, 1025, 2000, 2731, 3000, 3841, 4095, 4096, 5000}

---------------------------------------------------------------------------
(* One provider dispatch, call by call (specification SpecGen) *)

GenInit ==
    /\ rooms = <<>>
    /\ messages = <<>>
    /\ now = 0
    /\ defaultTrash = TrashOut
    /\ ragEnabled = FALSE
    /\ pc = [p \in Procs |-> "idle"]
    /\ loc = [p \in Procs |-> NoLoc]
    /\ ret = NoRet
    /\ clean = [p \in Procs |-> TRUE]
    /\ lastUpsert = [k \in Pairs |-> 0]
    /\ lastTrashed = [k \in Pairs |-> 0]
    /\ \E clientOK \in BOOLEAN, model \in GenModels, max_tokens \in GenMaxTokens :
        gen = [stage |-> "start", clientOK |-> clientOK, model |-> model,
               max_tokens |-> max_tokens, caps |-> <<>>, resps |-> <<>>,
               out |-> Raised(0, FALSE)]

UNCHANGED_db ==
    UNCHANGED <<rooms, messages, now, defaultTrash, ragEnabled, pc, loc, ret, clean,
                lastUpsert, lastTrashed>>

\* client = _get_openai_client()
GenGetClient ==
    /\ gen.stage = "start"
    /\ gen' = IF gen.clientOK THEN [gen EXCEPT !.stage = "client"]
              ELSE [gen EXCEPT !.stage = "done", !.out = ClientUnavailable]
    /\ UNCHANGED_db

\* client.responses.create(...) or client.chat.completions.create(...)
GenFirstCall ==
    /\ gen.stage = "client"
    /\ LET responses == _should_use_responses_api(gen.model)
           cap == IF responses THEN ResponsesMaxTokens(gen.max_tokens) ELSE gen.max_tokens
       IN \E resp \in (IF responses THEN ResponsesSamples ELSE ChatSamples) :
            gen' = IF resp.kind = "raise"
                   THEN [gen EXCEPT !.stage = "done", !.caps = <<cap>>, !.resps = <<resp>>,
                                    !.out = HandleTransportFailure]
                   ELSE [gen EXCEPT !.stage = "called", !.caps = <<cap>>, !.resps = <<resp>>]
    /\ UNCHANGED_db

\* the second client.responses.create(...) with retry_tokens
GenRetry ==
    /\ gen.stage = "called"
    /\ _should_use_responses_api(gen.model)
    /\ ShouldRetry(gen.resps[1], gen.caps[1])
    /\ \E resp \in ResponsesSamples :
        gen' = IF resp.kind = "raise"
               THEN [gen EXCEPT !.stage = "done", !.caps = Append(@, RetryTokens(gen.caps[1])),
                                !.resps = Append(@, resp), !.out = HandleTransportFailure]
               ELSE [gen EXCEPT !.stage = "retried", !.caps = Append(@, RetryTokens(gen.caps[1])),
                                !.resps = Append(@, resp)]
    /\ UNCHANGED_db

\* text extraction and the handlers, on the last payload received
GenFinish ==
    /\ \/ gen.stage = "retried"
       \/ /\ gen.stage = "called"
          /\ ~(_should_use_responses_api(gen.model) /\ ShouldRetry(gen.resps[1], gen.caps[1]))
    /\ LET resp == gen.resps[Len(gen.resps)] IN
       gen' = [gen EXCEPT !.stage = "done",
                          !.out = IF _should_use_responses_api(gen.model)
                                  THEN HandleHTTPException(ResponsesResult(resp))
                                  ELSE HandleHTTPException(ChatResult(resp))]
    /\ UNCHANGED_db

GenNext == GenGetClient \/ GenFirstCall \/ GenRetry \/ GenFinish

SpecGen == GenInit /\ [][GenNext]_vars

---------------------------------------------------------------------------
(* The text normaliser on its own (specification SpecCoerce) *)

CoerceChars == {"a", "b", " ", "\n"}

CoerceStrings ==
    {<<>>} \cup {<<c>> : c \in CoerceChars} \cup {<<c, d>> : c \in CoerceChars, d \in CoerceChars}

CoerceAtoms == {VNone, VStr(<<>>), VStr(<<"a">>), VStr(<<"b">>), VStr(<<" ">>), VNum(7)}

\* dict() / an object without value, text, content: str() of an empty dict
EmptyObject == VObj(VNone, VNone, VNone, <<"{", "}">>)

CoerceObjects ==
    {EmptyObject,
     VObj(VNone, VNone, VNone, <<" ">>),
     VObj(VStr(<<"a">>), VStr(<<"b">>), VNone, <<"o">>),
     VObj(VStr(<<>>), VStr(<<"b">>), VNone, <<"o">>),
     VObj(VNone, VNone, VList(<<VStr(<<"a">>), VStr(<<"b">>)>>), <<"o">>),
     VObj(VNone, VObj(VNone, VStr(<<"a">>), VNone, <<"i">>), VNone, <<"o">>),
     VObj(VList(<<>>), VNone, VStr(<<>>), <<"o">>)}

CoerceInputs ==
    {VNone} \cup {VStr(str) : str \in CoerceStrings} \cup {VNum(n) : n \in 0..9}
    \cup {VList(<<>>)} \cup {VList(<<x>>) : x \in CoerceAtoms \cup CoerceObjects}
    \cup {VList(<<x, y>>) : x \in CoerceAtoms, y \in CoerceAtoms}
    \cup {VList(<<VStr(<<"a">>), VStr(<<>>), VStr(<<"b">>)>>),
          VList(<<VList(<<VStr(<<"a">>)>>), VList(<<>>), VStr(<<"b">>)>>)}
    \cup CoerceObjects

CoerceInit ==
    /\ rooms = <<>>
    /\ messages = <<>>
    /\ now = 0
    /\ defaultTrash = TrashOut
    /\ ragEnabled = FALSE
    /\ pc = [p \in Procs |-> "idle"]
    /\ loc = [p \in Procs |-> NoLoc]
    /\ ret = NoRet
    /\ clean = [p \in Procs |-> TRUE]
    /\ lastUpsert = [k \in Pairs |-> 0]
    /\ lastTrashed = [k \in Pairs |-> 0]
    /\ \E value \in CoerceInputs : gen = [stage |-> "value", value |-> value, out |-> Null]

\* text = _coerce_text_value(value)
CoerceApply ==
    /\ gen.stage = "value"
    /\ gen' = [gen EXCEPT !.stage = "coerced", !.out = _coerce_text_value(gen.value)]
    /\ UNCHANGED_db

CoerceNext == CoerceApply

SpecCoerce == CoerceInit /\ [][CoerceNext]_vars

---------------------------------------------------------------------------
(* The text normaliser on values that may contain themselves (specification *)
(* SpecCyclic).  Values live in a heap of cells: a list holds references to *)
(* cells, the fields of an object are references (0 when absent).  A call   *)
(* deeper than RecursionLimit raises the interpreter's RecursionError.      *)

HeapCells == 1..2

CNone == [t |-> "none"]
CStr(str) == [t |-> "str", s |-> str]
CList(items) == [t |-> "list", items |-> items]
CObj(value, text, content, repr) ==
    [t |-> "obj", value |-> value, text |-> text, content |-> content, repr |-> repr]

CellValues ==
    {CNone, CStr(<<>>), CStr(<<"a">>)}
    \cup {CList(items) : items \in UNION {[1..n -> HeapCells] : n \in 0..2}}
    \cup {CObj(value, 0, content, <<"{", "}">>) :
              value \in {0} \cup HeapCells, content \in {0} \cup HeapCells}

CoerceReturned(text) == [raised |-> FALSE, text |-> text]
RecursionError == [raised |-> TRUE, text |-> Null]

\* _coerce_text_value(heap[ref]) as the call at the given depth of recursion
RECURSIVE CoerceAt(_, _, _)
RECURSIVE CoercePartsAt(_, _, _)
RECURSIVE CoerceNestedAt(_, _, _, _)

\* the parts of a list (line 113); text is the list of the truthy parts
CoercePartsAt(heap, items, depth) ==
    IF items = <<>> THEN CoerceReturned(<<>>)
    ELSE LET part == CoerceAt(heap, Head(items), depth) IN
         IF part.raised THEN RecursionError
         ELSE LET rest == CoercePartsAt(heap, Tail(items), depth) IN
              IF rest.raised THEN RecursionError
              ELSE CoerceReturned((IF Truthy(part.text) THEN <<part.text>> ELSE <<>>)
                                  \o rest.text)

\* the loop over nested_keys (lines 118-124), then the fallback (lines 127-128)
CoerceNestedAt(heap, value, nested, depth) ==
    IF nested = <<>>
    THEN LET text_repr == Strip(value.repr)
         IN CoerceReturned(IF text_repr = <<>> THEN Null ELSE text_repr)
    ELSE IF Head(nested) = 0 \/ heap[Head(nested)].t = "none"
    THEN CoerceNestedAt(heap, value, Tail(nested), depth)
    ELSE LET resolved == CoerceAt(heap, Head(nested), depth) IN
         IF resolved.raised THEN RecursionError
         ELSE IF Truthy(resolved.text) THEN resolved
         ELSE CoerceNestedAt(heap, value, Tail(nested), depth)

CoerceAt(heap, ref, depth) ==
    IF depth > RecursionLimit THEN RecursionError
    ELSE LET value == heap[ref] IN
         CASE value.t = "none" -> CoerceReturned(Null)
           [] value.t = "str" -> CoerceReturned(value.s)
           [] value.t = "list" ->
                LET parts == CoercePartsAt(heap, value.items, depth + 1) IN
                IF parts.raised THEN RecursionError
                ELSE CoerceReturned(IF parts.text = <<>> THEN Null
                                    ELSE JoinLines(parts.text))
           [] value.t = "obj" ->
                CoerceNestedAt(heap, value, <<value.value, value.text, value.content>>,
                               depth + 1)

CyclicInit ==
    /\ rooms = <<>>
    /\ messages = <<>>
    /\ now = 0
    /\ defaultTrash = TrashOut
    /\ ragEnabled = FALSE
    /\ pc = [p \in Procs |-> "idle"]
    /\ loc = [p \in Procs |-> NoLoc]
    /\ ret = NoRet
    /\ clean = [p \in Procs |-> TRUE]
    /\ lastUpsert = [k \in Pairs |-> 0]
    /\ lastTrashed = [k \in Pairs |-> 0]
    /\ \E heap \in [HeapCells -> CellValues] :
        gen = [stage |-> "value", heap |-> heap, out |-> CoerceReturned(Null)]

\* text = _coerce_text_value(value), value the first cell of the heap
CyclicApply ==
    /\ gen.stage = "value"
    /\ gen' = [gen EXCEPT !.stage = "coerced", !.out = CoerceAt(gen.heap, 1, 1)]
    /\ UNCHANGED_db

CyclicNext == CyclicApply

SpecCyclic == CyclicInit /\ [][CyclicNext]_vars

---------------------------------------------------------------------------
(* Stock code normalisation on its own (specification SpecNorm) *)

NormChars == {"a", "A", "9", "-", "$", " ", "\n"}

\* n copies of a character
Repeat(c, n) == [i \in 1..n |-> c]

NormInputs ==
    {Null, <<>>}
    \cup {<<c>> : c \in NormChars}
    \cup {<<c, d>> : c \in NormChars, d \in NormChars}
    \cup {<<"a", " ", "b">>, <<" ", "a", "\n">>, <<"A", "$", "a">>}
    \cup {Repeat("a", StockCodeMaxLen), Repeat("A", StockCodeMaxLen + 1),
          Repeat("a", StockCodeMaxLen + 1),
          Repeat("a", StockCodeMaxLen) \o <<" ">>,
          <<" ">> \o Repeat("9", StockCodeMaxLen - 1) \o <<"\n", "a">>,
          Repeat("a", StockCodeMaxLen - 2) \o <<" ", "-", " ", "b">>}

NormInit ==
    /\ rooms = <<>>
    /\ messages = <<>>
    /\ now = 0
    /\ defaultTrash = TrashOut
    /\ ragEnabled = FALSE
    /\ pc = [p \in Procs |-> "idle"]
    /\ loc = [p \in Procs |-> NoLoc]
    /\ ret = NoRet
    /\ clean = [p \in Procs |-> TRUE]
    /\ lastUpsert = [k \in Pairs |-> 0]
    /\ lastTrashed = [k \in Pairs |-> 0]
    /\ \E raw_code \in NormInputs :
        gen = [stage |-> "raw", raw_code |-> raw_code, out |-> [ok |-> FALSE, code |-> <<>>]]

\* normalized = normalize_stock_code(raw_code)
NormApply ==
    /\ gen.stage = "raw"
    /\ gen' = [gen EXCEPT !.stage = "normalized", !.out = normalize_stock_code(gen.raw_code)]
    /\ UNCHANGED_db

NormNext == NormApply

SpecNorm == NormInit /\ [][NormNext]_vars

---------------------------------------------------------------------------
(* The messages table and the reply pipeline *)

RoleUser == "user"
RoleAssistant == "assistant"

Message(chat_id, user_id, role, content) ==
    [chat_id |-> chat_id, user_id |-> user_id, role |-> role, content |-> content]

\* _ensure_room_ownership: the room's id, or 0 when HTTP 404 is raised
OwnershipIgnoresUser(rs, room_id, user_id) ==
    IF room_id \in 1..Len(rs) THEN room_id ELSE 0

_ensure_room_ownership(rs, room_id, user_id) ==
    IF room_id \in 1..Len(rs) /\ rs[room_id].user_id = user_id THEN room_id ELSE 0

\* db.add(message); db.commit(): the row is durable from here on
db_add_uncommitted(msgs, message) == msgs

\* the row written over the last one
db_add_overwrites(msgs, message) ==
    IF msgs = <<>> THEN <<message>> ELSE [msgs EXCEPT ![Len(msgs)] = message]

db_add_commit(msgs, message) == Append(msgs, message)

\* chat.lastchat_at = func.now() of the same commit
Touch(rs, room_id, at) == [rs EXCEPT ![room_id].lastchat_at = at]

\* _load_chat_history: order_by(created_at.asc()).limit(limit)
HistoryLimit == 30

_load_chat_history(msgs, room_id, limit) ==
    LET ofRoom == SelectSeq(msgs, LAMBDA m : m.chat_id = room_id)
    IN SubSeq(ofRoom, 1, Min(limit, Len(ofRoom)))

\* _convert_history_to_openai_messages
_convert_history_to_openai_messages(history, system_prompt) ==
    (IF Truthy(system_prompt) THEN <<[role |-> "system", content |-> system_prompt]>>
     ELSE <<>>)
    \o [i \in 1..Len(history) |-> [role |-> history[i].role, content |-> history[i].content]]

\* _extract_latest_user_text
_extract_latest_user_text(history) ==
    LET fromUser == {i \in 1..Len(history) : history[i].role = RoleUser}
    IN IF fromUser = {} THEN Null ELSE history[SetMax(fromUser)].content

\* news documents as similarity_search returns them
_RAG_NEWS_SUMMARY_LIMIT == 4
SnippetMax == 200

Doc(title, published_at, content) ==
    [title |-> title, published_at |-> published_at, content |-> content]

\* value or placeholder
OrElse(value, placeholder) == IF Truthy(value) THEN value ELSE placeholder

\* docs[:max_items]
FirstN(docs, max_items) == SubSeq(docs, 1, Min(max_items, Len(docs)))

\* re.sub(r"\s+", " ", raw_content)
RECURSIVE CollapseWhitespace(_)
CollapseWhitespace(s) ==
    IF s = <<>> THEN <<>>
    ELSE IF Head(s) \in Whitespace
    THEN <<" ">> \o CollapseWhitespace(LStrip(s))
    ELSE <<Head(s)>> \o CollapseWhitespace(Tail(s))

Snippet(raw_content) ==
    LET snippet == Strip(CollapseWhitespace(OrElse(raw_content, <<>>)))
    IN IF Len(snippet) > SnippetMax
       THEN SubSeq(snippet, 1, SnippetMax) \o <<".", ".", ".">>
       ELSE snippet

SummaryLine(idx, doc) ==
    <<DigitStr[idx], ".", " ">> \o OrElse(doc.title, <<"(untitled)">>)
    \o <<" ", "(">> \o OrElse(doc.published_at, <<"(publication date unknown)">>)
    \o <<")", ":", " ">> \o Snippet(doc.content)

SummaryText(stock_code, shown) ==
    <<"[news summary]", "\n">> \o stock_code \o <<" (latest articles)", "\n">>
    \o JoinLines([i \in 1..Len(shown) |-> SummaryLine(i, shown[i])])

\* the query loop of _build_rag_news_summary (lines 339-347): the n-th query
\* raises when failAt = n; the loop stops at the first non-empty result
RECURSIVE RunQueriesSkipFailed(_, _, _, _)
RunQueriesSkipFailed(queries, n, failAt, issued) ==
    IF queries = <<>> THEN [failed |-> FALSE, docs |-> <<>>, issued |-> issued]
    ELSE IF failAt # n /\ Head(queries).docs # <<>>
    THEN [failed |-> FALSE, docs |-> Head(queries).docs,
          issued |-> Append(issued, Head(queries).query)]
    ELSE RunQueriesSkipFailed(Tail(queries), n + 1, failAt,
                              Append(issued, Head(queries).query))

\* every query made, the results put together
RECURSIVE RunQueriesMerging(_, _, _, _)
RunQueriesMerging(queries, n, failAt, issued) ==
    IF queries = <<>> THEN [failed |-> FALSE, docs |-> <<>>, issued |-> issued]
    ELSE IF failAt = n
    THEN [failed |-> TRUE, docs |-> <<>>, issued |-> Append(issued, Head(queries).query)]
    ELSE LET rest == RunQueriesMerging(Tail(queries), n + 1, failAt,
                                       Append(issued, Head(queries).query))
         IN [rest EXCEPT !.docs = Head(queries).docs \o @]

RECURSIVE RunQueries(_, _, _, _)
RunQueries(queries, n, failAt, issued) ==
    IF queries = <<>> THEN [failed |-> FALSE, docs |-> <<>>, issued |-> issued]
    ELSE IF failAt = n
    THEN [failed |-> TRUE, docs |-> <<>>, issued |-> Append(issued, Head(queries).query)]
    ELSE IF Head(queries).docs # <<>>
    THEN [failed |-> FALSE, docs |-> Head(queries).docs,
          issued |-> Append(issued, Head(queries).query)]
    ELSE RunQueries(Tail(queries), n + 1, failAt, Append(issued, Head(queries).query))

NoNews(issued) == [summary |-> Null, docs |-> <<>>, issued |-> issued]

\* _build_rag_news_summary.  news tells what the retrieval collaborator does:
\* failAt = -1 when get_news_session() raises, n when the n-th query raises,
\* 0 when nothing raises; byText and byCode are the results of the two queries.
_build_rag_news_summary(enabled, stock_code, latest_user_text, max_items, news) ==
    IF ~enabled \/ ~Truthy(stock_code) THEN NoNews(<<>>)
    ELSE IF news.failAt = -1 THEN NoNews(<<>>)
    ELSE LET queries ==
                 (IF Truthy(latest_user_text)
                  THEN <<[query |-> latest_user_text, docs |-> news.byText]>> ELSE <<>>)
                 \o <<[query |-> stock_code, docs |-> news.byCode]>>
             found == RunQueries(queries, 1, news.failAt, <<>>)
         IN IF found.failed \/ found.docs = <<>> THEN NoNews(found.issued)
            ELSE [summary |-> SummaryText(stock_code, FirstN(found.docs, max_items)),
                  docs |-> FirstN(found.docs, max_items),
                  issued |-> found.issued]

\* oai_messages.insert(insert_idx, ...)
InsertAt(seq, idx, x) ==
    SubSeq(seq, 1, Min(idx, Len(seq))) \o <<x>> \o SubSeq(seq, Min(idx, Len(seq)) + 1, Len(seq))

\* lines 506-512: the references section appended to the assistant text
FooterLine(idx, doc) ==
    <<DigitStr[idx], ".", " ">> \o OrElse(doc.title, <<"(untitled)">>)
    \o <<" ", "(">> \o OrElse(doc.published_at, <<"(date unknown)">>) \o <<")", "\n">>

RECURSIVE FooterLines(_, _)
FooterLines(news_docs, idx) ==
    IF idx > Len(news_docs) THEN <<>>
    ELSE FooterLine(idx, news_docs[idx]) \o FooterLines(news_docs, idx + 1)

NewsSection(news_docs) == <<"\n", "\n", "[references]", "\n">> \o FooterLines(news_docs, 1)

WithNewsSection(assistant_text, news_docs) ==
    IF news_docs # <<>> THEN assistant_text \o NewsSection(news_docs) ELSE assistant_text

\* sample documents and what the retrieval collaborator may answer
D_full == Doc(<<"N">>, <<"d">>, <<"x", " ", "\n", "y">>)
D_bare == Doc(Null, Null, Null)

NewsAnswers ==
    [failAt : {-1, 0, 1, 2},
     byText : {<<>>, <<D_full, D_bare>>, <<D_full, D_bare, D_full, D_bare, D_full>>},
     byCode : {<<>>, <<D_bare>>}]

\* the answers that matter to one reply: the collaborator is not asked when
\* retrieval is off, the provider not when there is no client, and not a
\* second time unless the first answer calls for it
NewsFor(enabled, stock_code) ==
    IF enabled /\ Truthy(stock_code) THEN NewsAnswers
    ELSE {[failAt |-> 0, byText |-> <<>>, byCode |-> <<>>]}

TurnSamples == {R_ok, R_truncated, R_truncated_empty, R_empty_output, R_nested, TransportFailure}

FirstAnswers(clientOK) == IF clientOK THEN TurnSamples ELSE {TransportFailure}

SecondAnswers(clientOK, r1) ==
    IF /\ clientOK
       /\ r1.kind # "raise"
       /\ _should_use_responses_api(_OPENAI_MODEL_DEFAULT)
       /\ ShouldRetry(r1, ResponsesMaxTokens(_OPENAI_MAX_TOKENS_DEFAULT))
    THEN TurnSamples ELSE {r1}

\* history: the collaborator raised while it was asked (opening the session,
\* the first query, or the second when the first was made and found nothing)
NewsRaises(enabled, stock_code, latest_user_text, news) ==
    /\ enabled
    /\ Truthy(stock_code)
    /\ \/ news.failAt \in {-1, 1}
       \/ news.failAt = 2 /\ Truthy(latest_user_text) /\ news.byText = <<>>

\* requests
MessageContents == {<<"q">>}
SystemPrompts == {Null, <<"s">>}
RoomRequests == 1..(MaxRooms + 1)

NoChatLoc ==
    [user |-> 0, room |-> 0, content |-> Null, system_prompt |-> Null, umsg |-> 0,
     oai_messages |-> <<>>, issued |-> <<>>, text |-> Null, assistant_text |-> Null,
     news_docs |-> <<>>, byText |-> 0, caps |-> <<>>, newsRaised |-> FALSE]

\* the response of a message endpoint, and what the handler went through:
\* returned is the tuple create_message_and_reply returned, text what
\* _call_openai_chat returned, byText the number of documents the retrieval
\* had for the latest user text, referenced the referenced_news of the body
NoChatRet ==
    [op |-> "none", slot |-> 0, status |-> 0, cause |-> "none", user |-> 0, room |-> 0,
     umsg |-> 0, returned |-> <<>>, text |-> Null, byText |-> 0, referenced |-> <<>>,
     newsRaised |-> FALSE]

\* turns that still have a row to write
Reserved == Cardinality({q \in Procs : pc[q] # "idle"})

\* rows written since the start: each write of a message advances the clock
Written == now

UNCHANGED_rooms_history == UNCHANGED <<defaultTrash, ragEnabled, clean, lastUpsert, lastTrashed, gen>>

\* create_message (POST /rooms/{room_id}/messages): save_user_message
SaveUserMessage(p) ==
    /\ pc[p] = "idle"
    /\ \E user_id \in Users, room_id \in RoomRequests, content \in MessageContents :
        LET chat == _ensure_room_ownership(rooms, room_id, user_id)
            request == [NoChatRet EXCEPT !.op = "message", !.slot = p, !.user = user_id,
                                         !.room = room_id]
        IN IF chat = 0
           THEN /\ ret' = [request EXCEPT !.status = 404, !.cause = "ownership"]
                /\ UNCHANGED <<rooms, messages, now>>
           ELSE /\ Written + Reserved < MaxMsgs
                /\ messages' = db_add_commit(messages, Message(room_id, user_id, RoleUser, content))
                /\ now' = now + 1
                /\ rooms' = Touch(rooms, chat, now + 1)
                /\ ret' = [request EXCEPT !.status = 200, !.umsg = Len(messages) + 1]
    /\ UNCHANGED <<pc, loc>>
    /\ UNCHANGED_rooms_history

\* create_message_with_openai (POST /rooms/{room_id}/chat-completions), up to
\* the commit of save_user_message in create_message_and_reply
TurnSaveUser(p) ==
    /\ pc[p] = "idle"
    /\ \E user_id \in Users, room_id \in RoomRequests, content \in MessageContents,
          system_prompt \in SystemPrompts :
        LET chat == _ensure_room_ownership(rooms, room_id, user_id) IN
        IF chat = 0
        THEN /\ ret' = [NoChatRet EXCEPT !.op = "turn", !.slot = p, !.user = user_id,
                                         !.room = room_id, !.status = 404,
                                         !.cause = "ownership"]
             /\ UNCHANGED <<rooms, messages, now, pc, loc>>
        ELSE /\ Written + Reserved + 1 < MaxMsgs
             /\ messages' = db_add_commit(messages, Message(room_id, user_id, RoleUser, content))
             /\ now' = now + 1
             /\ rooms' = Touch(rooms, chat, now + 1)
             /\ pc' = [pc EXCEPT ![p] = "generate"]
             /\ loc' = [loc EXCEPT ![p] =
                            [NoChatLoc EXCEPT !.user = user_id, !.room = room_id,
                                              !.content = content,
                                              !.system_prompt = system_prompt,
                                              !.umsg = Len(messages) + 1]]
             /\ ret' = NoChatRet
    /\ UNCHANGED_rooms_history

\* the response of a turn that ends in slot p
TurnRet(p, l, status, cause) ==
    [NoChatRet EXCEPT !.op = "turn", !.slot = p, !.status = status, !.cause = cause,
                      !.user = l.user, !.room = l.room, !.umsg = l.umsg, !.text = l.text,
                      !.byText = l.byText, !.newsRaised = l.newsRaised]

\* generate_and_save_assistant_reply up to the assistant text (lines 492-512):
\* ownership, history, retrieval, the provider call, the references section
TurnGenerate(p) ==
    /\ pc[p] = "generate"
    /\ LET l == loc[p]
           chat == _ensure_room_ownership(rooms, l.room, l.user)
       IN IF chat = 0
          THEN /\ ret' = TurnRet(p, l, 404, "ownership")
               /\ pc' = [pc EXCEPT ![p] = "idle"]
               /\ loc' = [loc EXCEPT ![p] = NoChatLoc]
          ELSE \E news \in NewsFor(ragEnabled, rooms[chat].stock_code), clientOK \in BOOLEAN :
               \E r1 \in FirstAnswers(clientOK) :
               \E r2 \in SecondAnswers(clientOK, r1) :
               LET history == _load_chat_history(messages, l.room, HistoryLimit)
                   latest_user_text == _extract_latest_user_text(history)
                   rag == _build_rag_news_summary(ragEnabled, rooms[chat].stock_code,
                                                  latest_user_text, _RAG_NEWS_SUMMARY_LIMIT,
                                                  news)
                   converted == _convert_history_to_openai_messages(history, l.system_prompt)
                   oai_messages ==
                       IF Truthy(rag.summary)
                       THEN InsertAt(converted, IF Truthy(l.system_prompt) THEN 1 ELSE 0,
                                     [role |-> "system", content |-> rag.summary])
                       ELSE converted
                   call == _call_openai_chat(clientOK, _OPENAI_MODEL_DEFAULT,
                                             _OPENAI_MAX_TOKENS_DEFAULT, r1, r2)
                   seen == [l EXCEPT !.oai_messages = oai_messages, !.issued = rag.issued,
                                     !.byText = IF /\ rag.issued # <<>>
                                                   /\ Truthy(latest_user_text)
                                                   /\ news.failAt # 1
                                                THEN Len(news.byText) ELSE 0,
                                     !.caps = call.caps,
                                     !.newsRaised =
                                         NewsRaises(ragEnabled, rooms[chat].stock_code,
                                                    latest_user_text, news)]
               IN IF call.out.kind = "raise"
                  THEN /\ ret' = TurnRet(p, seen, call.out.status,
                                         IF call.caps = <<>> THEN "client" ELSE "transport")
                       /\ pc' = [pc EXCEPT ![p] = "idle"]
                       /\ loc' = [loc EXCEPT ![p] = NoChatLoc]
                  ELSE /\ ret' = NoChatRet
                       /\ pc' = [pc EXCEPT ![p] = "persist"]
                       /\ loc' = [loc EXCEPT ![p] =
                                      [seen EXCEPT !.text = call.out.text,
                                                   !.news_docs = rag.docs,
                                                   !.assistant_text =
                                                       WithNewsSection(call.out.text, rag.docs)]]
    /\ UNCHANGED <<rooms, messages, now>>
    /\ UNCHANGED_rooms_history

\* what create_message_and_reply returns (line 541)
create_message_and_reply_return(user_msg, assistant_msg, news_docs) ==
    <<user_msg, assistant_msg>>

\* the commit of the assistant message (lines 514-524), the return of
\* create_message_and_reply, and the rest of create_message_with_openai
\* (chat.py lines 57-69): the tuple is unpacked into three names
TurnPersist(p) ==
    /\ pc[p] = "persist"
    /\ LET l == loc[p]
           assistant_msg == Len(messages) + 1
           returned == create_message_and_reply_return(l.umsg, assistant_msg, l.news_docs)
       IN /\ messages' = db_add_commit(messages, Message(l.room, l.user, RoleAssistant,
                                                         l.assistant_text))
          /\ now' = now + 1
          /\ rooms' = Touch(rooms, l.room, now + 1)
          /\ ret' = IF Len(returned) = 3
                    THEN [TurnRet(p, l, 201, "none") EXCEPT !.returned = returned,
                                                            !.referenced = returned[3]]
                    ELSE [TurnRet(p, l, 500, "unpack") EXCEPT !.returned = returned]
    /\ pc' = [pc EXCEPT ![p] = "idle"]
    /\ loc' = [loc EXCEPT ![p] = NoChatLoc]
    /\ UNCHANGED_rooms_history

\* two rooms left by the room lifecycle: room 1 of user 1 for stock A (found or
\* created by stock), room 2 of user 2 without a stock (created directly)
ChatInit ==
    /\ defaultTrash \in {TrashIn, TrashOut}
    /\ rooms = <<Chat(1, DefaultTitle(<<"A">>), <<"A">>, TrashOut),
                 Chat(2, <<"T">>, Null, defaultTrash)>>
    /\ messages = <<>>
    /\ now = 0
    /\ \E config \in BOOLEAN, available \in BOOLEAN : ragEnabled = (config /\ available)
    /\ pc = [p \in Procs |-> "idle"]
    /\ loc = [p \in Procs |-> NoChatLoc]
    /\ ret = NoChatRet
    /\ clean = [p \in Procs |-> TRUE]
    /\ lastUpsert = [k \in Pairs |-> 0]
    /\ lastTrashed = [k \in Pairs |-> 0]
    /\ gen = NoGen

ChatNext ==
    \E p \in Procs :
        \/ SaveUserMessage(p)
        \/ TurnSaveUser(p)
        \/ TurnGenerate(p)
        \/ TurnPersist(p)

SpecChat == ChatInit /\ [][ChatNext]_vars

---------------------------------------------------------------------------
(* The news summary on its own (specification SpecNews): the stock code of *)
(* the room, the latest user text and the collaborator's answers are drawn *)

NewsStockCodes == {Null, <<"A">>}
NewsUserTexts == {Null, <<>>, <<"q">>}

NewsInit ==
    /\ rooms = <<>>
    /\ messages = <<>>
    /\ now = 0
    /\ defaultTrash = TrashOut
    /\ ragEnabled \in BOOLEAN
    /\ pc = [p \in Procs |-> "idle"]
    /\ loc = [p \in Procs |-> NoChatLoc]
    /\ ret = NoChatRet
    /\ clean = [p \in Procs |-> TRUE]
    /\ lastUpsert = [k \in Pairs |-> 0]
    /\ lastTrashed = [k \in Pairs |-> 0]
    /\ \E stock_code \in NewsStockCodes, latest_user_text \in NewsUserTexts,
          news \in NewsAnswers :
        gen = [stage |-> "asked", stock_code |-> stock_code,
               latest_user_text |-> latest_user_text, news |-> news,
               out |-> NoNews(<<>>)]

\* rag_summary, news_docs = _build_rag_news_summary(chat.stock_code, ...)
NewsSummarise ==
    /\ gen.stage = "asked"
    /\ gen' = [gen EXCEPT !.stage = "summarised",
                          !.out = _build_rag_news_summary(ragEnabled, gen.stock_code,
                                                          gen.latest_user_text,
                                                          _RAG_NEWS_SUMMARY_LIMIT, gen.news)]
    /\ UNCHANGED_db

NewsNext == NewsSummarise

SpecNews == NewsInit /\ [][NewsNext]_vars

---------------------------------------------------------------------------
(* The ledger under every operation that can run beside it (specification  *)
(* SpecLedger): message requests, fetches and room updates, starting after *)
(* one create_message on room 1                                            *)

\* last_message_id of get_messages (0: None, which filters nothing either)
LastMessageIds == {0, 1}

\* fetch_chat_messages lines 554-557: the ids of the rows returned, in order
FetchRows(msgs, room_id, last_message_id) ==
    LET ids == [i \in 1..Len(msgs) |-> i]
    IN SelectSeq(ids, LAMBDA i : /\ msgs[i].chat_id = room_id
                                 /\ (last_message_id # 0 => i > last_message_id))

\* get_messages (GET /rooms/{room_id}/messages) and fetch_chat_messages
FetchMessages(p) ==
    /\ pc[p] = "idle"
    /\ \E user_id \in Users, room_id \in RoomRequests, last_message_id \in LastMessageIds :
        LET chat == _ensure_room_ownership(rooms, room_id, user_id)
            request == [NoChatRet EXCEPT !.op = "fetch", !.slot = p, !.user = user_id,
                                         !.room = room_id]
        IN ret' = IF chat = 0
                  THEN [request EXCEPT !.status = 404, !.cause = "ownership"]
                  ELSE [request EXCEPT !.status = 200,
                                       !.returned = FetchRows(messages, room_id,
                                                              last_message_id)]
    /\ UNCHANGED <<rooms, messages, now, pc, loc>>
    /\ UNCHANGED_rooms_history

LedgerInit ==
    /\ defaultTrash = TrashOut
    /\ rooms = Touch(<<Chat(1, DefaultTitle(<<"A">>), <<"A">>, TrashOut),
                       Chat(2, <<"T">>, Null, defaultTrash)>>, 1, 1)
    /\ messages = <<Message(1, 1, RoleUser, <<"q">>)>>
    /\ now = 1
    /\ ragEnabled = FALSE
    /\ pc = [p \in Procs |-> "idle"]
    /\ loc = [p \in Procs |-> NoChatLoc]
    /\ ret = NoChatRet
    /\ clean = [p \in Procs |-> TRUE]
    /\ lastUpsert = [k \in Pairs |-> 0]
    /\ lastTrashed = [k \in Pairs |-> 0]
    /\ gen = NoGen

LedgerNext ==
    \/ ChatNext
    \/ \E p \in Procs :
        \/ FetchMessages(p)
        \/ UpdateChatRoom(p)

SpecLedger == LedgerInit /\ [][LedgerNext]_vars

---------------------------------------------------------------------------
(* The message turn in a room with a long history (specification SpecLong): *)
(* room 1 already holds as many messages as the history query loads, or one *)
(* fewer, written in earlier turns                                          *)

PriorCounts == {HistoryLimit - 1, HistoryLimit}
PriorContent == <<"p">>

LongInit ==
    /\ defaultTrash = TrashOut
    /\ rooms = <<Chat(1, DefaultTitle(<<"A">>), <<"A">>, TrashOut),
                 Chat(2, <<"T">>, Null, defaultTrash)>>
    /\ \E n \in PriorCounts :
        messages = [i \in 1..n |->
                        Message(1, 1, IF i % 2 = 1 THEN RoleUser ELSE RoleAssistant,
                                PriorContent)]
    /\ now = 0
    /\ ragEnabled \in BOOLEAN
    /\ pc = [p \in Procs |-> "idle"]
    /\ loc = [p \in Procs |-> NoChatLoc]
    /\ ret = NoChatRet
    /\ clean = [p \in Procs |-> TRUE]
    /\ lastUpsert = [k \in Pairs |-> 0]
    /\ lastTrashed = [k \in Pairs |-> 0]
    /\ gen = NoGen

SpecLong == LongInit /\ [][ChatNext]_vars

---------------------------------------------------------------------------
(* The history query on its own (specification SpecHistory): a ledger of up *)
(* to MaxHistory messages over two rooms, message i carrying the text i     *)

HistoryLimits == 1..3

HistoryLedgers ==
    UNION {[1..n -> {1, 2}] : n \in 0..MaxHistory}

HistoryInit ==
    /\ defaultTrash = TrashOut
    /\ rooms = <<Chat(1, DefaultTitle(<<"A">>), <<"A">>, TrashOut),
                 Chat(2, <<"T">>, Null, defaultTrash)>>
    /\ \E chat_of \in HistoryLedgers :
        messages = [i \in 1..Len(chat_of) |->
                        Message(chat_of[i], 1,
                                IF i % 2 = 1 THEN RoleUser ELSE RoleAssistant,
                                <<DigitStr[i]>>)]
    /\ now = 0
    /\ ragEnabled = FALSE
    /\ pc = [p \in Procs |-> "idle"]
    /\ loc = [p \in Procs |-> NoChatLoc]
    /\ ret = NoChatRet
    /\ clean = [p \in Procs |-> TRUE]
    /\ lastUpsert = [k \in Pairs |-> 0]
    /\ lastTrashed = [k \in Pairs |-> 0]
    /\ \E limit \in HistoryLimits :
        gen = [stage |-> "query", room_id |-> 1, limit |-> limit, out |-> <<>>]

\* history = _load_chat_history(db, room_id, limit)
HistoryLoad ==
    /\ gen.stage = "query"
    /\ gen' = [gen EXCEPT !.stage = "loaded",
                          !.out = _load_chat_history(messages, gen.room_id, gen.limit)]
    /\ UNCHANGED_db

HistoryNext == HistoryLoad

SpecHistory == HistoryInit /\ [][HistoryNext]_vars

---------------------------------------------------------------------------
(* Claims on the room lifecycle (specification Spec) *)

StockCodesInUse == {rooms[i].stock_code : i \in RoomIds(rooms)} \ {Null}

\* C1: after any sequence of room operations by any users, every (user, stock
\* code) pair has at most one room whose trash state is 'out'.
C1_OneActiveRoomPerUserStock ==
    \A user_id \in Users, stock_code \in StockCodesInUse :
        Cardinality({i \in RoomIds(rooms) : /\ rooms[i].user_id = user_id
                                            /\ rooms[i].stock_code = stock_code
                                            /\ rooms[i].trash_can = "out"}) <= 1

\* C1 witness: a pair holds an active and a trashed room, and an update that
\* would have made the trashed one active as well was just refused.
C1_Witness ==
    /\ ret.op = "update"
    /\ ret.status = 500
    /\ \E i, j \in RoomIds(rooms) :
        /\ rooms[i].user_id = rooms[j].user_id
        /\ rooms[i].stock_code = rooms[j].stock_code
        /\ rooms[i].stock_code # Null
        /\ rooms[i].trash_can = "out"
        /\ rooms[j].trash_can = "in"

\* C2: two find-or-create calls in sequence for one (user, code), no trashing
\* in between: the first (made while the pair has no active room) reports
\* existed false, the second returns the same room id and reports existed true.
C2_TwiceSameRoomFalseThenTrue ==
    (ret.op = "upsert" /\ ret.clean) =>
        /\ (ret.act0 = 0 => ret.status = 200 /\ ~ret.existed /\ ret.id # 0)
        /\ (ret.prev # 0 => ret.status = 200 /\ ret.existed /\ ret.id = ret.prev)

\* C2 witness: a second call that followed a first call reporting existed false.
C2_Witness ==
    /\ ret.op = "upsert"
    /\ ret.clean
    /\ ret.prev # 0
    /\ ret.id = ret.prev
    /\ ret.existed

\* C3 as stated: a room of (user, code) is trashed by update, find-or-create is
\* then called for the pair: it returns that same room id with existed false,
\* the room is 'out' afterwards and no room is created.
C3_RestoresTheTrashedRoom ==
    [][(ret'.op = "upsert" /\ ret'.clean /\ ret'.tr0 # 0) =>
          /\ ret'.status = 200
          /\ ret'.id = ret'.tr0
          /\ ~ret'.existed
          /\ rooms'[ret'.tr0].trash_can = "out"
          /\ Len(rooms') = Len(rooms)]_vars

\* C3 amended: the call restores the pair's most recent (highest id) trashed
\* room, which is the room just trashed unless a trashed room of the pair has
\* a higher id; it creates no room, the restored room is 'out', existed is false.
C3_RestoresMostRecentTrashed ==
    [][(ret'.op = "upsert" /\ ret'.clean /\ ret'.tr0 # 0) =>
          /\ ret'.status = 200
          /\ ret'.id = ret'.hi0
          /\ ret'.hi0 >= ret'.tr0
          /\ ~ret'.existed
          /\ rooms'[ret'.id].trash_can = "out"
          /\ Len(rooms') = Len(rooms)
          /\ \A i \in RoomIds(rooms) : i # ret'.id => rooms'[i] = rooms[i]]_vars

\* C3 witness: the trashed room was the pair's most recent one and came back.
C3_Witness ==
    /\ ret.op = "upsert"
    /\ ret.clean
    /\ ret.tr0 # 0
    /\ ret.id = ret.tr0
    /\ ~ret.existed
    /\ rooms[ret.id].trash_can = "out"

\* C4: the insert of a find-or-create that lost the race hits the uniqueness
\* violation, which is caught; the active room is queried again and returned
\* with existed true, and the violation is re-raised only when none is found.
C4_InsertRaceRequery ==
    [][\A p \in Procs :
        LET active == {i \in RoomIds(rooms) : /\ rooms[i].user_id = loc[p].user
                                              /\ rooms[i].stock_code = loc[p].stock
                                              /\ rooms[i].trash_can = "out"}
        IN /\ (pc[p] = "upsert_commit" /\ loc[p].mode = "insert" /\ active # {}
               /\ pc'[p] # pc[p]) =>
                  (pc'[p] = "upsert_requery" /\ rooms' = rooms)
           /\ (pc[p] = "upsert_requery" /\ pc'[p] # pc[p]) =>
                  /\ rooms' = rooms
                  /\ ret'.op = "upsert"
                  /\ ret'.conflict
                  /\ active # {} => (ret'.status = 200 /\ ret'.existed /\ ret'.id \in active)
                  /\ active = {} => ret'.status = 500]_vars

\* C4 witness: the loser of an insert race answered with the winner's room.
C4_Witness ==
    /\ ret.op = "upsert"
    /\ ret.conflict
    /\ ret.status = 200
    /\ ret.existed
    /\ rooms[ret.id].trash_can = "out"

\* C13: an update of a room its user owns, with a title that is empty after
\* trimming or a trash state that is neither 'in' nor 'out', is answered 400
\* and leaves every room as it was, title included when a valid title came
\* with an invalid trash state: no step that is answered otherwise, or that
\* changes a room, is the step of such an update.
C13_InvalidUpdateIs400AndChangesNothing ==
    [][(ret'.op = "update" /\ ~(ret'.status = 400 /\ rooms' = rooms)) =>
        \A chat_in \in ChatUpdates :
            (\/ chat_in.title # Null /\ \A i \in 1..Len(chat_in.title) :
                                           chat_in.title[i] \in Whitespace
             \/ chat_in.trash_can \notin {"None", "in", "out"})
            => \A room_id \in 1..Len(rooms), p \in Procs :
                   ~UpdateWith(p, rooms[room_id].user_id, room_id, chat_in)]_vars

\* an update was refused with 400 while rooms exist
C13_Witness ==
    /\ ret.op = "update"
    /\ ret.status = 400
    /\ \E i \in 1..Len(rooms) : rooms[i].title # <<"T">>

\* C14: a create request with a stock code for which the user has an active
\* ('out') room returns that room and creates none, and the by-stock lookup
\* returns only active rooms.
C14_CreateReturnsActiveRoom ==
    [][/\ ret'.op = "create" =>
            \A p \in Procs, user_id \in Users, stock_code \in StoredCodes,
               title \in CreateTitles :
                (/\ CreateWith(p, user_id, stock_code, title)
                 /\ \E i \in 1..Len(rooms) : /\ rooms[i].user_id = user_id
                                             /\ rooms[i].stock_code = stock_code
                                             /\ rooms[i].trash_can = "out")
                => /\ rooms' = rooms
                   /\ ret'.status = 201
                   /\ ret'.id \in 1..Len(rooms)
                   /\ rooms[ret'.id].user_id = user_id
                   /\ rooms[ret'.id].stock_code = stock_code
                   /\ rooms[ret'.id].trash_can = "out"
       /\ (ret'.op = "by_stock" /\ ret'.status = 200) =>
             rooms'[ret'.id].trash_can = "out"]_vars

\* the by-stock lookup answered with a trashed room while the pair has an
\* active room
C14_Witness ==
    /\ ret.op = "by_stock"
    /\ ret.status = 200
    /\ rooms[ret.id].trash_can = "in"
    /\ \E i \in 1..Len(rooms) : /\ rooms[i].user_id = rooms[ret.id].user_id
                                /\ rooms[i].stock_code = rooms[ret.id].stock_code
                                /\ rooms[i].trash_can = "out"

\* the update that names neither a title nor a trash state
NoChange == [title |-> Null, trash_can |-> "None"]

\* C24: an update that names neither a title nor a trash state answers with
\* the room and commits nothing, and a find-or-create by stock that finds an
\* active room answers with it and commits nothing: no room changes, the
\* found room's title included, whether or not a title came with the request.
C24_NoChangeWritesNothing ==
    [][/\ (ret'.op = "update" /\ ~(/\ ret'.status = 200
                                   /\ ~ret'.commit
                                   /\ rooms' = rooms)) =>
              \A room_id \in 1..Len(rooms), p \in Procs :
                  ~(/\ UpdateWith(p, rooms[room_id].user_id, room_id, NoChange)
                    /\ ret'.id = room_id)
       /\ (ret'.op = "upsert" /\ ret'.existed /\ ~ret'.conflict) =>
              /\ ~ret'.commit
              /\ rooms' = rooms
              /\ ret'.status = 200
              /\ ret'.id \in 1..Len(rooms)
              /\ rooms[ret'.id].trash_can = "out"]_vars

\* an update without changes was answered with a trashed room, nothing committed
C24_Witness ==
    /\ ret.op = "update"
    /\ ret.status = 200
    /\ ~ret.commit
    /\ rooms[ret.id].trash_can = "in"

\* the trashed rooms of (user, code)
TrashedRoomsOf(user_id, stock_code) ==
    {i \in 1..Len(rooms) : /\ rooms[i].user_id = user_id
                           /\ rooms[i].stock_code = stock_code
                           /\ rooms[i].trash_can = "in"}

\* C25: a find-or-create by stock that found no active room while the pair
\* has several trashed rooms, and runs undisturbed, restores exactly one of
\* them, the one with the highest id: that room is 'out' afterwards, every
\* other room is as it was (the other trashed rooms stay trashed), no room is
\* created, and the call answers with the restored room and existed false.
C25_RestoresOnlyTheMostRecentOfSeveral ==
    [][\A p \in Procs :
        (/\ pc[p] = "upsert_commit"
         /\ pc'[p] = "idle"
         /\ clean[p]
         /\ Cardinality(TrashedRoomsOf(loc[p].user, loc[p].stock)) >= 2)
        => LET trashed == TrashedRoomsOf(loc[p].user, loc[p].stock)
               latest == CHOOSE i \in trashed : \A j \in trashed : j <= i
           IN /\ ret'.op = "upsert"
              /\ ret'.status = 200
              /\ ret'.id = latest
              /\ ~ret'.existed
              /\ Len(rooms') = Len(rooms)
              /\ rooms'[latest].trash_can = "out"
              /\ \A i \in 1..Len(rooms) : i # latest => rooms'[i] = rooms[i]
              /\ \A i \in trashed \ {latest} : rooms'[i].trash_can = "in"]_vars

\* the newer of two trashed rooms of a pair came back, the older is still trashed
C25_Witness ==
    /\ ret.op = "upsert"
    /\ ret.clean
    /\ ret.status = 200
    /\ ~ret.existed
    /\ ret.commit
    /\ ret.id = 2
    /\ rooms[2].trash_can = "out"
    /\ rooms[1].trash_can = "in"
    /\ rooms[1].user_id = rooms[2].user_id
    /\ rooms[1].stock_code = rooms[2].stock_code

---------------------------------------------------------------------------
(* Claims on two concurrent entries (specification SpecRace) *)

\* the active rooms of the pair the two slots enter
ActiveOfRace ==
    {i \in 1..Len(rooms) : /\ rooms[i].user_id = RaceUser
                           /\ rooms[i].stock_code = <<"A">>
                           /\ rooms[i].trash_can = "out"}

\* C27: two find-or-create calls for one (user, code) that overlap in any
\* way, nothing else running, the pair starting with no room or with one
\* trashed room: every call that has started completes; every answer is a
\* success that carries the id of the pair's one active room; a room that is
\* active stays active, so both answers carry the same id, and the pair has
\* exactly one active room afterwards.
C27_ConcurrentEntriesAgree ==
    /\ [][/\ \A i \in ActiveOfRace : i \in ActiveOfRace'
          /\ ret'.op = "upsert" => (ret'.status = 200 /\ ActiveOfRace' = {ret'.id})]_vars
    /\ \A p \in Procs : (pc[p] # "idle") ~> (pc[p] = "idle")

\* the slot that lost the insert race answered with the winner's room, the
\* only room there is, and both slots are done
C27_Witness ==
    /\ \A p \in Procs : pc[p] = "idle"
    /\ ret.op = "upsert"
    /\ ret.conflict
    /\ ret.status = 200
    /\ Len(rooms) = 1
    /\ ActiveOfRace = {ret.id}

---------------------------------------------------------------------------
(* Claims on the message turn (specification SpecChat) *)

\* the room exists and belongs to the user
RoomOwnedBy(room_id, user_id) == room_id \in 1..Len(rooms) /\ rooms[room_id].user_id = user_id

\* C5: a turn on a room that does not exist or belongs to another user is
\* answered 404 by its first step, which leaves the messages and the rooms
\* (their last-activity timestamps included) as they were; a turn gets past
\* its first step only on a room the user owns.
C5_ForeignOrMissingRoomIs404 ==
    [][\A p \in Procs :
        /\ (pc[p] = "idle" /\ pc'[p] = "generate") => RoomOwnedBy(loc'[p].room, loc'[p].user)
        /\ (pc[p] = "idle" /\ ret'.op = "turn" /\ ret'.slot = p) =>
              /\ ~RoomOwnedBy(ret'.room, ret'.user)
              /\ ret'.status = 404
              /\ messages' = messages
              /\ rooms' = rooms
              /\ pc'[p] = "idle"]_vars

\* a turn on another user's room was answered 404 while the ledger holds messages
C5_Witness ==
    /\ ret.op = "turn"
    /\ ret.status = 404
    /\ ret.room \in 1..Len(rooms)
    /\ rooms[ret.room].user_id # ret.user
    /\ messages # <<>>

\* C6: the user message of a turn is committed before the reply is generated;
\* when the provider call fails for good (no client: 500, transport failure:
\* 502) the turn ends with that error, the step persists nothing, and the
\* user message of the turn is still in the ledger.
C6_UserMessageSurvivesFailedReply ==
    [][\A p \in Procs :
        /\ pc[p] = "generate" =>
              /\ loc[p].umsg \in 1..Len(messages)
              /\ messages[loc[p].umsg] =
                     Message(loc[p].room, loc[p].user, RoleUser, loc[p].content)
        /\ (pc[p] = "generate" /\ ret'.op = "turn" /\ ret'.slot = p) =>
              /\ ret'.cause \in {"client", "transport"}
              /\ ret'.status = (IF ret'.cause = "client" THEN 500 ELSE 502)
              /\ messages' = messages
              /\ messages'[loc[p].umsg] =
                     Message(loc[p].room, loc[p].user, RoleUser, loc[p].content)
              /\ pc'[p] = "idle"]_vars

\* a turn ended 502 and its user message is the last row of the ledger
C6_Witness ==
    /\ ret.op = "turn"
    /\ ret.cause = "transport"
    /\ ret.status = 502
    /\ Len(messages) = ret.umsg
    /\ messages[ret.umsg].role = RoleUser

\* the reply of the turn was generated and committed
TurnReplied == ret.op = "turn" /\ ret.cause \notin {"ownership", "client", "transport"}

\* retrieval applies to the room of the turn
RetrievalOn(room_id) == ragEnabled /\ Truthy(rooms[room_id].stock_code)

\* the content ends with a references section of k lines
EndsWithReferences(content, k) ==
    \E i \in 3..Len(content) :
        /\ content[i] = "[references]"
        /\ content[i - 1] = "\n"
        /\ content[i - 2] = "\n"
        /\ content[Len(content)] = "\n"
        /\ Cardinality({j \in (i + 1)..Len(content) : content[j] = "\n"}) = k + 1

\* C7: a turn whose retrieval is on and has k documents for the latest user
\* text (k within the summary limit) returns a triple whose third part is a
\* list of k documents, is answered 201, and the persisted assistant content
\* ends with a references section of k lines.
C7_ReturnsTripleWithDocuments ==
    (/\ TurnReplied
     /\ RetrievalOn(ret.room)
     /\ ret.byText \in 1.._RAG_NEWS_SUMMARY_LIMIT)
    => /\ Len(ret.returned) = 3
       /\ ret.status = 201
       /\ Len(ret.returned[3]) = ret.byText
       /\ Len(ret.referenced) = ret.byText
       /\ EndsWithReferences(messages[ret.returned[2]].content, ret.byText)

\* a turn with two documents: the assistant message ends with a two-line
\* references section, a pair was returned and the request was answered 500
C7_Witness ==
    /\ TurnReplied
    /\ RetrievalOn(ret.room)
    /\ ret.byText = 2
    /\ Len(ret.returned) = 2
    /\ EndsWithReferences(messages[ret.returned[2]].content, 2)
    /\ ret.status = 500

\* C8: a turn whose retrieval is off (not enabled, or a room without stock
\* code) persists the assistant message with exactly the text the dispatcher
\* returned, without references section, and returns an empty document list.
C8_RetrievalOffRawTextNoDocuments ==
    (TurnReplied /\ ~RetrievalOn(ret.room))
    => /\ Len(ret.returned) >= 2
       /\ messages[ret.returned[2]].content = ret.text
       /\ \A i \in 1..Len(ret.text) : ret.text[i] # "[references]"
       /\ Len(ret.returned) = 3
       /\ ret.returned[3] = <<>>
       /\ ret.status = 201

\* a turn without retrieval persisted the fallback string as it is, a pair
\* was returned and the request was answered 500
C8_Witness ==
    /\ TurnReplied
    /\ ~RetrievalOn(ret.room)
    /\ ret.text = _ASSISTANT_FALLBACK_MESSAGE
    /\ Len(ret.returned) = 2
    /\ messages[ret.returned[2]].content = _ASSISTANT_FALLBACK_MESSAGE
    /\ ret.status = 500

\* C12: when the retrieval collaborator raises (opening the news session, or
\* either similarity query), the reply step goes on without summary and
\* without documents: it ends only on a provider failure, and otherwise the
\* assistant message is committed with the provider's text and no references
\* section.
C12_RetrievalFailureDoesNotFailTheTurn ==
    [][\A p \in Procs :
        /\ (pc[p] = "generate" /\ pc'[p] = "persist" /\ loc'[p].newsRaised) =>
              /\ loc'[p].news_docs = <<>>
              /\ loc'[p].caps # <<>>
              /\ loc'[p].assistant_text = loc'[p].text
              /\ \A i \in 1..Len(loc'[p].oai_messages) :
                    loc'[p].oai_messages[i].role = "system" =>
                        loc'[p].oai_messages[i].content = loc[p].system_prompt
        /\ (pc[p] = "generate" /\ ret'.op = "turn" /\ ret'.slot = p /\ ret'.newsRaised) =>
              ret'.cause \in {"client", "transport"}
        /\ (pc[p] = "persist" /\ pc'[p] = "idle" /\ loc[p].newsRaised) =>
              messages' = Append(messages, Message(loc[p].room, loc[p].user, RoleAssistant,
                                                   loc[p].text))]_vars

\* a reply was committed as the provider gave it after the collaborator raised
C12_Witness ==
    /\ TurnReplied
    /\ ret.newsRaised
    /\ messages[Len(messages)] = Message(ret.room, ret.user, RoleAssistant, ret.text)

\* C18: in a sequential turn (nothing is written to the ledger between the
\* turn's user message and the generation) the last entry of the context is
\* the user message the turn persisted, and the first retrieval query is its
\* content, whatever the number of messages the room held before.
C18_SequentialTurnSeesItsOwnMessage ==
    [][\A p \in Procs :
        (pc[p] = "generate" /\ pc'[p] = "persist" /\ loc[p].umsg = Len(messages)) =>
            LET context == loc'[p].oai_messages
                issued == loc'[p].issued
            IN /\ context # <<>>
               /\ context[Len(context)] = [role |-> RoleUser, content |-> loc[p].content]
               /\ issued # <<>> => issued[1] = loc[p].content]_vars

\* a turn in a room of HistoryLimit earlier messages generated its reply from
\* a context that ends with an earlier message, and queried the retrieval
\* with an earlier utterance
C18_Witness ==
    \E p \in Procs :
        /\ pc[p] = "persist"
        /\ loc[p].umsg = HistoryLimit + 1
        /\ Len(messages) = HistoryLimit + 1
        /\ loc[p].content # PriorContent
        /\ loc[p].oai_messages[Len(loc[p].oai_messages)].content = PriorContent
        /\ loc[p].issued # <<>>
        /\ loc[p].issued[1] = PriorContent

---------------------------------------------------------------------------
(* Claims on the ledger (specification SpecLedger) *)

\* C21: the messages form an append-only ledger: whatever request runs (a
\* message, a turn, a fetch, a room update that renames, trashes or restores)
\* every message persisted before the step is still there after it, at the
\* same place with the same room, author, role and content; the ledger only
\* grows at its end.
C21_LedgerIsAppendOnly ==
    [][/\ Len(messages') >= Len(messages)
       /\ \A i \in 1..Len(messages) : messages'[i] = messages[i]]_vars

\* the first message is still the first of three, after its room was trashed
\* and while a fetch returns the three of them
C21_Witness ==
    /\ Len(messages) = 3
    /\ messages[1] = Message(1, 1, RoleUser, <<"q">>)
    /\ rooms[1].trash_can = TrashIn
    /\ ret.op = "fetch"
    /\ ret.returned = <<1, 2, 3>>

\* C22: every persisted message references an existing room that belongs to
\* the message's author, and a fetch reads message rows only of a room its
\* user owns: on any other room it is answered 404 and returns no row.
C22_MessagesReferenceOwnedRooms ==
    /\ \A i \in 1..Len(messages) :
        /\ messages[i].chat_id \in 1..Len(rooms)
        /\ rooms[messages[i].chat_id].user_id = messages[i].user_id
    /\ ret.op = "fetch" =>
        IF ret.room \in 1..Len(rooms) /\ rooms[ret.room].user_id = ret.user
        THEN ret.status = 200
        ELSE ret.status = 404 /\ ret.returned = <<>>

\* a fetch of another user's room, which holds a user message and a reply,
\* was answered 404
C22_Witness ==
    /\ ret.op = "fetch"
    /\ ret.status = 404
    /\ ret.room \in 1..Len(rooms)
    /\ rooms[ret.room].user_id # ret.user
    /\ \E i \in 1..Len(messages) :
        messages[i].chat_id = ret.room /\ messages[i].role = RoleAssistant

---------------------------------------------------------------------------
(* Claims on the news summary (specification SpecNews) *)

\* at most the first n documents of a result
AtMostFirst(result, n) == SubSeq(result, 1, IF Len(result) < n THEN Len(result) ELSE n)

\* C23: when retrieval applies and nothing fails, the latest user utterance,
\* if there is one, is the first query, and the stock code is queried only
\* when that query found nothing; the documents are those of the first query
\* that found any, never those of both; without an utterance the stock code
\* is the only query.
C23_UtteranceFirstThenStockCode ==
    (/\ gen.stage = "summarised"
     /\ ragEnabled
     /\ gen.stock_code # Null
     /\ gen.news.failAt = 0)
    => IF gen.latest_user_text # Null /\ gen.latest_user_text # <<>>
       THEN IF gen.news.byText # <<>>
            THEN /\ gen.out.issued = <<gen.latest_user_text>>
                 /\ gen.out.docs = AtMostFirst(gen.news.byText, 4)
            ELSE /\ gen.out.issued = <<gen.latest_user_text, gen.stock_code>>
                 /\ gen.out.docs = AtMostFirst(gen.news.byCode, 4)
       ELSE /\ gen.out.issued = <<gen.stock_code>>
            /\ gen.out.docs = AtMostFirst(gen.news.byCode, 4)

\* the utterance found documents while the stock code has one too: one query
\* was made and only its documents are used
C23_Witness ==
    /\ gen.stage = "summarised"
    /\ gen.news.failAt = 0
    /\ gen.news.byText # <<>>
    /\ gen.news.byCode # <<>>
    /\ gen.out.issued = <<gen.latest_user_text>>
    /\ Len(gen.out.docs) = 2
    /\ gen.out.docs = gen.news.byText

---------------------------------------------------------------------------
(* Claims on the provider dispatch (specification SpecGen) *)

\* the first response of a structured-protocol dispatch was received
GenStructuredAnswered ==
    /\ gen.stage = "done"
    /\ gen.clientOK
    /\ gen.resps # <<>>
    /\ gen.resps[1].kind = "responses"

\* C9: in the structured protocol, a first response that reports incompletion
\* for reason max_output_tokens under a cap below the ceiling is followed by
\* exactly one more call with a strictly larger cap, whose result is accepted
\* whatever it reports; there is never a third call; for another reason, or a
\* cap already at the ceiling, there is no second call.
C9_RetryExactlyOnceWithLargerCap ==
    /\ gen.stage # "off" => Len(gen.caps) <= 2 /\ Len(gen.resps) = Len(gen.caps)
    /\ GenStructuredAnswered =>
         IF /\ gen.resps[1].incomplete = "max_output_tokens"
            /\ gen.caps[1] < _OPENAI_RESPONSES_MAX_OUTPUT_TOKENS
         THEN /\ Len(gen.caps) = 2
              /\ gen.caps[2] > gen.caps[1]
              /\ gen.caps[2] <= _OPENAI_RESPONSES_MAX_OUTPUT_TOKENS
              /\ gen.resps[2].kind # "raise" => gen.out.kind = "return"
         ELSE Len(gen.caps) = 1

\* a retried dispatch whose second response is truncated again, and accepted
C9_Witness ==
    /\ GenStructuredAnswered
    /\ Len(gen.caps) = 2
    /\ gen.resps[2].incomplete = "max_output_tokens"
    /\ gen.out.kind = "return"

\* payloads without extractable text: no choices, empty or absent content,
\* an empty output list, output items that carry no text
NoTextSamples ==
    {R_truncated_empty, R_filtered, R_empty_output, R_empty_text,
     C_no_choices, C_empty_content, C_none_content}

\* C10: when the payload the provider answered with (either protocol) has no
\* extractable text, _call_openai_chat returns the fixed fallback string and
\* does not raise.
C10_NoTextGivesFallback ==
    (/\ gen.stage = "done"
     /\ gen.resps # <<>>
     /\ gen.resps[Len(gen.resps)] \in NoTextSamples)
    => gen.out = Returned(_ASSISTANT_FALLBACK_MESSAGE)

\* a structured-protocol dispatch answered with an empty output list
C10_Witness ==
    /\ gen.stage = "done"
    /\ gen.resps = <<R_empty_output>>
    /\ gen.out = Returned(_ASSISTANT_FALLBACK_MESSAGE)

\* C11: a transport failure of the provider call, in either protocol, at the
\* first call or at the retry, is raised to the caller as 502; it is never
\* turned into the fallback string or into any returned text.
C11_TransportFailureIs502 ==
    (/\ gen.stage = "done"
     /\ gen.resps # <<>>
     /\ gen.resps[Len(gen.resps)] = TransportFailure)
    => /\ gen.out.kind = "raise"
       /\ gen.out.status = 502
       /\ gen.out.text # _ASSISTANT_FALLBACK_MESSAGE

\* the retry of a structured-protocol dispatch failed in transport: 502
C11_Witness ==
    /\ gen.stage = "done"
    /\ Len(gen.resps) = 2
    /\ gen.resps[2] = TransportFailure
    /\ gen.out.kind = "raise"
    /\ gen.out.status = 502

\* C19: in the structured protocol the cap sent on the first call lies in the
\* band from _OPENAI_RESPONSES_MIN_OUTPUT_TOKENS to
\* _OPENAI_RESPONSES_MAX_OUTPUT_TOKENS whatever was requested: the floor for
\* a request below it, the ceiling for a request above it, the request itself
\* in between.
C19_FirstCapWithinBand ==
    (_should_use_responses_api(gen.model) /\ gen.caps # <<>>) =>
        /\ gen.caps[1] >= _OPENAI_RESPONSES_MIN_OUTPUT_TOKENS
        /\ gen.caps[1] <= _OPENAI_RESPONSES_MAX_OUTPUT_TOKENS
        /\ gen.max_tokens < _OPENAI_RESPONSES_MIN_OUTPUT_TOKENS
               => gen.caps[1] = _OPENAI_RESPONSES_MIN_OUTPUT_TOKENS
        /\ gen.max_tokens > _OPENAI_RESPONSES_MAX_OUTPUT_TOKENS
               => gen.caps[1] = _OPENAI_RESPONSES_MAX_OUTPUT_TOKENS
        /\ (/\ gen.max_tokens >= _OPENAI_RESPONSES_MIN_OUTPUT_TOKENS
            /\ gen.max_tokens <= _OPENAI_RESPONSES_MAX_OUTPUT_TOKENS)
               => gen.caps[1] = gen.max_tokens

\* a request above the ceiling was sent with the ceiling
C19_Witness ==
    /\ _should_use_responses_api(gen.model)
    /\ gen.max_tokens > _OPENAI_RESPONSES_MAX_OUTPUT_TOKENS
    /\ gen.resps # <<>>
    /\ gen.caps[1] = _OPENAI_RESPONSES_MAX_OUTPUT_TOKENS

\* the integer part of one and a half times n
OneAndAHalfTruncated(n) ==
    CHOOSE k \in 0..(2 * n) : 2 * k <= 3 * n /\ 3 * n < 2 * k + 2

\* C20: the cap of the retry is the smaller of the ceiling and the larger of
\* one and a half times the previous cap (truncated to an integer) and the
\* previous cap plus 256; it is above the previous cap and never above the
\* ceiling.
C20_RetryCapFormula ==
    Len(gen.caps) = 2 =>
        LET previousCap == gen.caps[1]
            scaled == OneAndAHalfTruncated(previousCap)
            stepped == previousCap + 256
            larger == IF scaled > stepped THEN scaled ELSE stepped
        IN /\ gen.caps[2] = IF larger > _OPENAI_RESPONSES_MAX_OUTPUT_TOKENS
                            THEN _OPENAI_RESPONSES_MAX_OUTPUT_TOKENS ELSE larger
           /\ previousCap < _OPENAI_RESPONSES_MAX_OUTPUT_TOKENS
           /\ gen.caps[2] > previousCap
           /\ gen.caps[2] <= _OPENAI_RESPONSES_MAX_OUTPUT_TOKENS

\* a retry whose cap is a truncated product: 1025 was followed by 1537
C20_Witness ==
    /\ Len(gen.caps) = 2
    /\ gen.caps[1] % 2 = 1
    /\ gen.caps[2] < _OPENAI_RESPONSES_MAX_OUTPUT_TOKENS
    /\ gen.caps[2] > gen.caps[1] + 256
    /\ 2 * gen.caps[2] = 3 * gen.caps[1] - 1

---------------------------------------------------------------------------
(* Claims on the text normaliser (specification SpecCoerce) *)

\* a str made of whitespace only (at least one character)
WhitespaceOnly(value) ==
    /\ value.t = "str"
    /\ value.s # <<>>
    /\ \A i \in 1..Len(value.s) : value.s[i] \in Whitespace

\* C15: _coerce_text_value returns None on an empty sequence, on an empty
\* object and on a whitespace-only string, and "a\nb" on ["a", "", "b"].
C15_CoerceNullsAndJoin ==
    gen.stage = "coerced" =>
        /\ gen.value = VList(<<>>) => gen.out = Null
        /\ gen.value = EmptyObject => gen.out = Null
        /\ WhitespaceOnly(gen.value) => gen.out = Null
        /\ gen.value = VList(<<VStr(<<"a">>), VStr(<<>>), VStr(<<"b">>)>>)
               => gen.out = <<"a", "\n", "b">>

\* a whitespace-only string came back as it is
C15_Witness ==
    /\ gen.stage = "coerced"
    /\ gen.value = VStr(<<" ", "\n">>)
    /\ gen.out = <<" ", "\n">>

---------------------------------------------------------------------------
(* Claims on the text normaliser over self-referential values *)
(* (specification SpecCyclic)                                 *)

\* C26: the text normaliser returns on every value, lists and objects that
\* contain themselves included: it never raises, and gives None when there is
\* no text to extract.
C26_CoerceAlwaysReturns ==
    gen.stage = "coerced" => ~gen.out.raised

\* a list whose only item is the list itself: the call raised
C26_Witness ==
    /\ gen.stage = "coerced"
    /\ gen.heap[1] = CList(<<1>>)
    /\ gen.out.raised

---------------------------------------------------------------------------
(* Claims on stock code normalisation (specification SpecNorm) *)

LowercaseLetters == {"a", "b"}
UppercaseLettersAndDigits == {"A", "B", "C", "Z", "0", "9"}

\* the characters of the input that are not whitespace, in order
NonWhitespace(raw) == SelectSeq(raw, LAMBDA c : c \notin {" ", "\n"})

\* C16: a code that normalize_stock_code returns for an input with lowercase
\* letters or whitespace has no lowercase letter and no whitespace and matches
\* ^[A-Z0-9.-]{1,20}$, keeping one character per non-whitespace character of
\* the input; an input is refused exactly when its normalised form is empty,
\* longer than 20, or has a character outside A-Z, 0-9, '.', '-'.
C16_NormalizedOrRefused ==
    (gen.stage = "normalized" /\ gen.raw_code # Null) =>
        LET kept == NonWhitespace(gen.raw_code)
            code == gen.out.code
            refused ==
                \/ kept = <<>>
                \/ Len(kept) > 20
                \/ \E i \in 1..Len(kept) :
                      kept[i] \notin LowercaseLetters \cup UppercaseLettersAndDigits
                                     \cup {".", "-"}
        IN /\ gen.out.ok = ~refused
           /\ gen.out.ok =>
                /\ Len(code) = Len(kept)
                /\ Len(code) \in 1..20
                /\ \A i \in 1..Len(code) :
                      /\ code[i] \in UppercaseLettersAndDigits \cup {".", "-"}
                      /\ kept[i] \in LowercaseLetters \/ code[i] = kept[i]

\* an input with lowercase letters and inner whitespace, 22 characters before
\* and 20 after normalisation, was accepted
C16_Witness ==
    /\ gen.stage = "normalized"
    /\ Len(gen.raw_code) = 22
    /\ gen.out.ok
    /\ Len(gen.out.code) = 20
    /\ gen.out.code[20] = "B"

---------------------------------------------------------------------------
(* Claims on the history query (specification SpecHistory) *)

\* the messages of a room, oldest first
MessagesOfRoom(room_id) == SelectSeq(messages, LAMBDA m : m.chat_id = room_id)

\* C17: the history query returns the `limit` most recent messages of the
\* room, oldest first: the last `limit` messages of a room that holds more.
C17_HistoryIsTheMostRecent ==
    gen.stage = "loaded" =>
        LET ofRoom == MessagesOfRoom(gen.room_id)
            n == IF Len(ofRoom) < gen.limit THEN Len(ofRoom) ELSE gen.limit
        IN gen.out = SubSeq(ofRoom, Len(ofRoom) - n + 1, Len(ofRoom))

\* a room of three messages queried with limit 2 gave its two oldest messages
C17_Witness ==
    /\ gen.stage = "loaded"
    /\ gen.limit = 2
    /\ Len(MessagesOfRoom(gen.room_id)) = 3
    /\ gen.out = SubSeq(MessagesOfRoom(gen.room_id), 1, 2)

====
